---- MODULE Spec2Model ----
(***************************************************************************)
(* epistle: packs a filtered slice of a source tree into one document.     *)
(* The model follows src/lib/scanner.ts (scanProject) and                  *)
(* src/lib/formatter.ts (buildTree, renderTree, redactSecrets,             *)
(* computeFileTokenStats, aggregateDirectoryTokens, formatOutput) and     *)
(* src/bin.ts (main, the hog report).                                      *)
(*                                                                         *)
(* Strings are sequences of one-character strings, so that split, join,    *)
(* regular-expression matching, escaping and collation are computed.       *)
(***************************************************************************)
EXTENDS Integers, Sequences, FiniteSets, TLC

VARIABLES
    stats,          \* aggregateDirectoryTokens: the fileTokenStats argument
    dirMap,         \* aggregateDirectoryTokens: the returned DirectoryTokenMap
    textParts,         \* redactSecrets: the input text, as the pieces it is made of
    redactPc,       \* redactSecrets: "input", "once" (redacted), "twice"
    redaction,      \* redactSecrets(text)
    reRedaction,    \* redactSecrets(redactSecrets(text).redacted)
    treeFiles,      \* buildTree: the files argument
    treePermuted,   \* the same files in another order
    treePc,         \* "input" or "rendered"
    treeOut,        \* the tree text of treeFiles
    treeOutPermuted, \* the tree text of treePermuted
    scanSetup,      \* scanProject: the options and the ignore files of the root
    diskPaths,      \* the files beneath the root
    globEntries,    \* scanProject: entries, what fast-glob returned
    cursor,         \* scanProject: the index of the entry the loop is at
    scanned,        \* scanProject: files, the list being built
    scanPc,         \* "idle", "walking", "returned" or "rejected"
    scanResult,     \* scanProject: the list the promise resolves to
    notFiles,       \* the entries lstat or stat reported as no file (skipped)
    fmtFiles,       \* formatOutput: the files argument
    fmtOptions,     \* formatOutput: the options argument
    fmtPc,          \* "input" or "done"
    rendered,       \* formatOutput: the returned object, and what the call did
    hogStats,       \* computeHogsForProject: input.fileTokenStats
    hogRaw,         \* computeHogsForProject: input.hogDepthRaw
    hogPc,          \* "input" or "done"
    hogs,           \* computeHogsForProject: the returned object
    cliOpts,        \* main: program.opts()
    stdoutIsTTY,    \* main: process.stdout.isTTY
    cliDisk,        \* main: the files beneath process.cwd()
    cliPc,          \* main: "start", the await it is at, "done" or "exited"
    cliRun,         \* main: format, persona, outputPath, excludeGlobs
    cliDoc,         \* main: what formatOutput returned, or that it threw
    cliLog,         \* main: what the run did to the world, in order
    cliExit         \* main: whether the process has ended, and its status

aggVars == <<stats, dirMap>>
redactVars == <<textParts, redactPc, redaction, reRedaction>>
treeVars == <<treeFiles, treePermuted, treePc, treeOut, treeOutPermuted>>
scanVars == <<scanSetup, diskPaths, globEntries, cursor, scanned, scanPc, scanResult,
              notFiles>>
formatVars == <<fmtFiles, fmtOptions, fmtPc, rendered>>
hogVars == <<hogStats, hogRaw, hogPc, hogs>>
cliVars == <<cliOpts, stdoutIsTTY, cliDisk, cliPc, cliRun, cliDoc, cliLog, cliExit>>
vars == <<stats, dirMap, textParts, redactPc, redaction, reRedaction,
          treeFiles, treePermuted, treePc, treeOut, treeOutPermuted,
          scanSetup, diskPaths, globEntries, cursor, scanned, scanPc, scanResult,
          notFiles, fmtFiles, fmtOptions, fmtPc, rendered,
          hogStats, hogRaw, hogPc, hogs,
          cliOpts, stdoutIsTTY, cliDisk, cliPc, cliRun, cliDoc, cliLog, cliExit>>

\* A value that is not yet computed / a property that is absent (undefined).
Undefined == "undefined"

-----------------------------------------------------------------------------
(* Characters and strings *)

Upper == {"A","B","C","D","E","F","G","H","I","J","K","L","M",
          "N","O","P","Q","R","S","T","U","V","W","X","Y","Z"}
Lower == {"a","b","c","d","e","f","g","h","i","j","k","l","m",
          "n","o","p","q","r","s","t","u","v","w","x","y","z"}
Digit == {"0","1","2","3","4","5","6","7","8","9"}
Alnum == Upper \cup Lower \cup Digit

\* s.slice(from, to) with 0-based from (inclusive) and to (exclusive, and
\* no further than the end).
Slice(s, from, to) == SubSeq(s, from + 1, IF to > Len(s) THEN Len(s) ELSE to)

\* Repeat(c, n): the string of n copies of the character c.
\* A sequence given by a function on 1..n, as a tuple.
Tuple(f) == SubSeq(f, 1, Len(f))

Repeat(c, n) == Tuple([k \in 1..n |-> c])

\* Concatenation of the strings ss[lo], ..., ss[hi].
RECURSIVE ConcatRange(_, _, _)
ConcatRange(ss, lo, hi) ==
    IF lo > hi THEN <<>>
    ELSE IF lo = hi THEN ss[lo]
    ELSE LET mid == (lo + hi) \div 2
         IN  ConcatRange(ss, lo, mid) \o ConcatRange(ss, mid + 1, hi)

\* Concatenation of a sequence of strings.
Concat(ss) == ConcatRange(ss, 1, Len(ss))

\* s.split(sep) for a one-character separator: always at least one piece.
RECURSIVE SplitFrom(_, _, _, _)
SplitFrom(s, sep, i, cur) ==
    IF i > Len(s) THEN <<cur>>
    ELSE IF s[i] = sep THEN <<cur>> \o SplitFrom(s, sep, i + 1, <<>>)
    ELSE SplitFrom(s, sep, i + 1, Append(cur, s[i]))

Split(s, sep) == SplitFrom(s, sep, 1, <<>>)

\* pieces.filter(Boolean): the empty string is falsy.
FilterBoolean(pieces) == SelectSeq(pieces, LAMBDA p : p # <<>>)

\* pieces.join(sep)
RECURSIVE Join(_, _)
Join(pieces, sep) ==
    IF pieces = <<>> THEN <<>>
    ELSE IF Len(pieces) = 1 THEN pieces[1]
    ELSE pieces[1] \o <<sep>> \o Join(Tail(pieces), sep)

\* file.path.split("/").filter(Boolean)
PathSegments(path) == FilterBoolean(Split(path, "/"))

\* F(x), with x computed once however often F looks at it.
ApplyTo(x, F(_)) == CHOOSE r \in {F(v) : v \in {x}} : TRUE

\* The sum of m[k] over the keys k.
RECURSIVE SumOver(_, _)
SumOver(keys, m) ==
    IF keys = {} THEN 0
    ELSE LET k == CHOOSE x \in keys : TRUE
         IN  m[k] + SumOver(keys \ {k}, m)

\* Map.get(k) ?? dflt and Map.set(k, v) on a map held as a function.
MapGetOr(m, k, dflt) == IF k \in DOMAIN m THEN m[k] ELSE dflt
MapSet(m, k, v) == (k :> v) @@ m
EmptyMap == <<>>

-----------------------------------------------------------------------------
(* String.prototype.localeCompare and Array.prototype.sort *)

LowerSeq == <<"a","b","c","d","e","f","g","h","i","j","k","l","m",
              "n","o","p","q","r","s","t","u","v","w","x","y","z">>
UpperSeq == <<"A","B","C","D","E","F","G","H","I","J","K","L","M",
              "N","O","P","Q","R","S","T","U","V","W","X","Y","Z">>
DigitSeq == <<"0","1","2","3","4","5","6","7","8","9">>

IndexIn(seq, c) == CHOOSE i \in 1..Len(seq) : seq[i] = c

\* Characters outside ASCII are named by their code point: U+00E9 is the
\* precomposed e with acute accent, U+0301 the combining acute accent.
EAcute == "U+00E9"
CombiningAcute == "U+0301"

\* Canonical decomposition of one character.
Decompose(c) == IF c = EAcute THEN <<"e", CombiningAcute>> ELSE <<c>>

\* Canonical decomposition (NFD) of a string.
Nfd(s) == Concat(Tuple([i \in 1..Len(s) |-> Decompose(s[i])]))

\* Collation weights of a decomposed character, in the order of the root
\* collation: punctuation before digits before letters; letters of both
\* cases share a primary weight; a combining accent has no primary weight.
PrimaryWeight(c) ==
    CASE c = CombiningAcute -> 0
      [] c = " " -> 1
      [] c = "_" -> 2
      [] c = "-" -> 3
      [] c = "." -> 4
      [] c = "/" -> 5
      [] c \in Digit -> 10 + IndexIn(DigitSeq, c)
      [] c \in Lower -> 20 + IndexIn(LowerSeq, c)
      [] c \in Upper -> 20 + IndexIn(UpperSeq, c)
      [] OTHER -> 9

SecondaryWeight(c) == IF c = CombiningAcute THEN 2 ELSE 1

\* Lowercase sorts before uppercase when everything else is equal.
TertiaryWeight(c) == IF c \in Upper THEN 2 ELSE 1

PrimaryKey(d) ==
    SelectSeq([i \in 1..Len(d) |-> PrimaryWeight(d[i])], LAMBDA w : w # 0)
SecondaryKey(d) == Tuple([i \in 1..Len(d) |-> SecondaryWeight(d[i])])
TertiaryKey(d) == Tuple([i \in 1..Len(d) |-> TertiaryWeight(d[i])])

\* The sort key of a string: its three levels of weights.
CollationKey(s) ==
    LET d == Nfd(s) IN <<PrimaryKey(d), SecondaryKey(d), TertiaryKey(d)>>

\* Lexicographic comparison of two sequences of numbers: -1, 0 or 1.
LexCompare(k1, k2) ==
    LET n == IF Len(k1) < Len(k2) THEN Len(k1) ELSE Len(k2)
        diffs == {i \in 1..n : k1[i] # k2[i]}
    IN  IF diffs # {}
        THEN LET i == CHOOSE x \in diffs : \A y \in diffs : x <= y
             IN  IF k1[i] < k2[i] THEN -1 ELSE 1
        ELSE IF Len(k1) < Len(k2) THEN -1
        ELSE IF Len(k1) > Len(k2) THEN 1
        ELSE 0

\* a.localeCompare(b): primary differences decide first, then accents, then
\* case; canonically equivalent strings compare equal.
CompareKeys(ka, kb) ==
    LET c1 == LexCompare(ka[1], kb[1])
        c2 == LexCompare(ka[2], kb[2])
    IN  IF c1 # 0 THEN c1 ELSE IF c2 # 0 THEN c2 ELSE LexCompare(ka[3], kb[3])

LocaleCompare(a, b) == CompareKeys(CollationKey(a), CollationKey(b))

\* Array.prototype.sort with a comparator that orders by collation key. The
\* sort is stable: elements that compare equal keep their order. keys[i] is
\* the collation key of seq[i]; element i comes after every element that
\* compares before it and after every equal element with a smaller index.
StableSortByKey(seq, keys) ==
    LET n == Len(seq)
        rank == Tuple([i \in 1..n |->
                    1 + Cardinality({j \in 1..n :
                            LET c == CompareKeys(keys[j], keys[i])
                            IN  c < 0 \/ (c = 0 /\ j < i)})])
    IN  Tuple([r \in 1..n |-> seq[CHOOSE i \in 1..n : rank[i] = r]])

\* Array.prototype.sort((a, b) => a.name.localeCompare(b.name)) over names.
SortNames(names) ==
    StableSortByKey(names, Tuple([i \in 1..Len(names) |-> CollationKey(names[i])]))

\* [...files].sort((a, b) => a.path.localeCompare(b.path))
SortFilesByPath(fileList) ==
    StableSortByKey(fileList,
        Tuple([i \in 1..Len(fileList) |-> CollationKey(fileList[i].path)]))

-----------------------------------------------------------------------------
(* buildTree and renderTree *)

\* A ScannedFile that is not there (TreeNode.file is optional).
NoFile == [path |-> <<>>, isBinary |-> FALSE, isOversized |-> FALSE,
           hasContent |-> FALSE, content |-> <<>>]

\* A tree is a map from the path of a node (its segments from the root) to
\* the node: the names of its children in insertion order, and its file.
NewNode == [children |-> <<>>, hasFile |-> FALSE, file |-> NoFile]
EmptyTree == <<>> :> NewNode

InSeq(x, seq) == \E i \in DOMAIN seq : seq[i] = x

\* The loop over the segments of one file: create the missing child, attach
\* the file at the last segment, descend.
RECURSIVE InsertSegments(_, _, _, _)
InsertSegments(tree, file, segments, i) ==
    IF i > Len(segments) THEN tree
    ELSE LET current == SubSeq(segments, 1, i - 1)
             segment == segments[i]
             next == Append(current, segment)
             withChild ==
                 IF InSeq(segment, tree[current].children) THEN tree
                 ELSE MapSet(MapSet(tree, next, NewNode), current,
                          [tree[current] EXCEPT !.children = Append(@, segment)])
             withFile ==
                 IF i = Len(segments)
                 THEN [withChild EXCEPT ![next] =
                          [@ EXCEPT !.hasFile = TRUE, !.file = file]]
                 ELSE withChild
         IN  InsertSegments(withFile, file, segments, i + 1)

RECURSIVE BuildFrom(_, _, _)
BuildFrom(tree, fileList, k) ==
    IF k > Len(fileList) THEN tree
    ELSE BuildFrom(InsertSegments(tree, fileList[k], PathSegments(fileList[k].path), 1),
                   fileList, k + 1)

buildTree(fileList) == BuildFrom(EmptyTree, fileList, 1)

\* The connectors: U+251C U+2500 U+2500 space, U+2514 U+2500 U+2500 space,
\* four spaces, U+2502 and three spaces.
BranchMid == <<"U+251C", "U+2500", "U+2500", " ">>
BranchLast == <<"U+2514", "U+2500", "U+2500", " ">>
IndentLast == <<" ", " ", " ", " ">>
IndentMid == <<"U+2502", " ", " ", " ">>

BinaryLabel == <<" ","[","b","i","n","a","r","y","]">>
OversizedLabel ==
    <<" ","[","s","k","i","p","p","e","d"," ",">","1","0","0","K","B","]">>

TreeLabel(node, name) ==
    IF node.hasFile /\ node.file.isBinary THEN name \o BinaryLabel
    ELSE IF node.hasFile /\ node.file.isOversized THEN name \o OversizedLabel
    ELSE name

\* Mutant: the children are rendered in the insertion order of the Map.
UnsortedChildren(names) == names

\* Array.from(node.children.values()).sort(...)
SortedChildren(names) == SortNames(names)

\* renderTree(node, prefix): the lines, which the code joins with "\n".
RECURSIVE RenderEntries(_, _, _, _, _)
RenderEntries(tree, nodePath, prefix, entries, index) ==
    IF index > Len(entries) THEN <<>>
    ELSE LET last == index = Len(entries)
             childPath == Append(nodePath, entries[index])
             child == tree[childPath]
             branch == IF last THEN BranchLast ELSE BranchMid
             nextPrefix == prefix \o (IF last THEN IndentLast ELSE IndentMid)
             line == prefix \o branch \o TreeLabel(child, entries[index])
             below == IF Len(child.children) > 0
                      THEN RenderEntries(tree, childPath, nextPrefix,
                               SortedChildren(child.children), 1)
                      ELSE <<>>
         IN  <<line>> \o below
                 \o RenderEntries(tree, nodePath, prefix, entries, index + 1)

renderTree(tree) ==
    RenderEntries(tree, <<>>, <<>>, SortedChildren(tree[<<>>].children), 1)

-----------------------------------------------------------------------------
(* getSecretPatterns and redactSecrets *)

\* "[REDACTED_SECRET]"
Placeholder ==
    <<"[","R","E","D","A","C","T","E","D","_","S","E","C","R","E","T","]">>

\* The quantifiers of the four patterns.
OpenAiKeyMin == 16
AwsKeyLen == 16
GoogleKeyMin == 20
JwtSegmentMin == 20

\* [A-Za-z0-9\-_] and [A-Za-z0-9-_]: letters, digits, hyphen, underscore.
TokenChars == Alnum \cup {"-", "_"}
\* \w, which decides the word boundary \b.
WordChars == Alnum \cup {"_"}

\* The literal lit occurs in s at index i (1-based).
StartsWithAt(s, i, lit) ==
    /\ i + Len(lit) - 1 <= Len(s)
    /\ \A k \in 1..Len(lit) : s[i + k - 1] = lit[k]

\* The length of the longest run of characters of class starting at index i.
RunLen(s, i, class) ==
    LET stops == {j \in i..(Len(s) + 1) : j = Len(s) + 1 \/ s[j] \notin class}
    IN  IF i > Len(s) THEN 0
        ELSE (CHOOSE j \in stops : \A k \in stops : j <= k) - i

IsWordAt(s, i) == i >= 1 /\ i <= Len(s) /\ s[i] \in WordChars

\* \b between index i - 1 and index i.
BoundaryBefore(s, i) == IsWordAt(s, i - 1) # IsWordAt(s, i)

\* /sk-[A-Za-z0-9]{16,}/ at index i: the length of the match, 0 for none.
MatchOpenAi(s, i) ==
    LET run == RunLen(s, i + 3, Alnum)
    IN  IF StartsWithAt(s, i, <<"s","k","-">>) /\ run >= OpenAiKeyMin
        THEN 3 + run ELSE 0

\* /AKIA[0-9A-Z]{16}/
MatchAws(s, i) ==
    IF /\ StartsWithAt(s, i, <<"A","K","I","A">>)
       /\ RunLen(s, i + 4, Upper \cup Digit) >= AwsKeyLen
    THEN 4 + AwsKeyLen ELSE 0

\* /AIza[0-9A-Za-z\-_]{20,}/
MatchGoogle(s, i) ==
    LET run == RunLen(s, i + 4, TokenChars)
    IN  IF StartsWithAt(s, i, <<"A","I","z","a">>) /\ run >= GoogleKeyMin
        THEN 4 + run ELSE 0

\* /\b[A-Za-z0-9-_]{20,}\.[A-Za-z0-9-_]{20,}\.[A-Za-z0-9-_]{20,}\b/
\* The first two segments are greedy runs that must stop at a dot; the third
\* backtracks from its longest run to the longest length that ends at a \b.
MatchJwt(s, i) ==
    LET r1 == RunLen(s, i, TokenChars)
        j2 == i + r1 + 1
        r2 == RunLen(s, j2, TokenChars)
        j3 == j2 + r2 + 1
        r3 == RunLen(s, j3, TokenChars)
        ends == {k \in JwtSegmentMin..r3 : BoundaryBefore(s, j3 + k)}
    IN  IF /\ BoundaryBefore(s, i)
           /\ r1 >= JwtSegmentMin
           /\ StartsWithAt(s, i + r1, <<".">>)
           /\ r2 >= JwtSegmentMin
           /\ StartsWithAt(s, j2 + r2, <<".">>)
           /\ ends # {}
        THEN (j3 - i) + (CHOOSE k \in ends : \A e \in ends : e <= k)
        ELSE 0

\* getSecretPatterns(): the patterns, in the order they are applied.
PatternCount == 4
MatchLen(p, s, i) ==
    CASE p = 1 -> MatchOpenAi(s, i)
      [] p = 2 -> MatchAws(s, i)
      [] p = 3 -> MatchGoogle(s, i)
      [] p = 4 -> MatchJwt(s, i)

\* The index of the leftmost match of pattern p at or after index i, 0 for none.
NextMatch(p, s, i) ==
    LET starts == {j \in i..Len(s) : MatchLen(p, s, j) > 0}
    IN  IF starts = {} THEN 0
        ELSE CHOOSE j \in starts : \A k \in starts : j <= k

\* Mutant: the g flag is lost, so only the leftmost match is replaced.
ReplaceFirstOnly(p, s, i, acc) ==
    LET j == NextMatch(p, s, i)
    IN  IF j = 0
        THEN [redacted |-> acc.redacted \o SubSeq(s, i, Len(s)), count |-> acc.count]
        ELSE [redacted |-> acc.redacted \o SubSeq(s, i, j - 1) \o Placeholder
                               \o SubSeq(s, j + MatchLen(p, s, j), Len(s)),
              count |-> acc.count + 1]

\* result.replace(re, () => { count++; return "[REDACTED_SECRET]" }) with the
\* g flag: leftmost matches, scanning on after each match.
RECURSIVE ReplaceFrom(_, _, _, _)
ReplaceFrom(p, s, i, acc) ==
    LET j == NextMatch(p, s, i)
    IN  IF j = 0
        THEN [redacted |-> acc.redacted \o SubSeq(s, i, Len(s)), count |-> acc.count]
        ELSE ReplaceFrom(p, s, j + MatchLen(p, s, j),
                 [redacted |-> acc.redacted \o SubSeq(s, i, j - 1) \o Placeholder,
                  count |-> acc.count + 1])

\* for (const re of getSecretPatterns()) { result = result.replace(...) }
RECURSIVE RedactFrom(_, _)
RedactFrom(p, acc) ==
    IF p > PatternCount THEN acc
    ELSE RedactFrom(p + 1,
             ReplaceFrom(p, acc.redacted, 1, [redacted |-> <<>>, count |-> acc.count]))

redactSecrets(text) == RedactFrom(1, [redacted |-> text, count |-> 0])

-----------------------------------------------------------------------------
(* readIgnoreFile, buildIgnore and scanProject *)

DEFAULT_MAX_FILE_SIZE_BYTES == 102400

\* The white space String.prototype.trim removes, as far as the texts here
\* have it: space, tab, line feed, carriage return.
WhiteSpace == {" ", "\t", "\n", "\r"}

\* text.trim()
Trim(line) ==
    LET inked == {i \in 1..Len(line) : line[i] \notin WhiteSpace}
    IN  IF inked = {} THEN <<>>
        ELSE SubSeq(line, CHOOSE i \in inked : \A j \in inked : i <= j,
                          CHOOSE i \in inked : \A j \in inked : j <= i)

\* An ignore file: unreadable (or missing), or its text.
NoIgnoreFile == [readable |-> FALSE, text |-> <<>>]
IgnoreFile(text) == [readable |-> TRUE, text |-> text]

\* readIgnoreFile: the trimmed lines that are neither blank nor comments;
\* no patterns when the file cannot be read.
readIgnoreFile(file) ==
    IF ~file.readable THEN <<>>
    ELSE LET lines == Split(file.text, "\n")
             trimmed == Tuple([i \in 1..Len(lines) |-> Trim(lines[i])])
         IN  SelectSeq(trimmed, LAMBDA line : line # <<>> /\ Head(line) # "#")

\* A pattern as the ignore package reads it: a leading "!" negates, a
\* trailing "/" matches directories only, a "/" elsewhere anchors at the
\* root, unless the pattern starts with "**/", which matches at any depth.
IgnoreRule(line) ==
    LET negative == Head(line) = "!"
        body == IF negative THEN Tail(line) ELSE line
        dirOnly == body # <<>> /\ body[Len(body)] = "/"
        inner == IF dirOnly THEN SubSeq(body, 1, Len(body) - 1) ELSE body
        deep == Len(inner) > 3 /\ SubSeq(inner, 1, 3) = <<"*","*","/">>
        rest == IF deep THEN SubSeq(inner, 4, Len(inner)) ELSE inner
    IN  [negative |-> negative,
         dirOnly |-> dirOnly,
         anchored |-> ~deep /\ InSeq("/", inner),
         segments |-> PathSegments(rest)]

\* One pattern segment against one name: a literal, or "*" and a suffix.
SegmentMatches(glob, name) ==
    IF glob # <<>> /\ Head(glob) = "*"
    THEN /\ Len(name) >= Len(glob) - 1
         /\ SubSeq(name, Len(name) - Len(glob) + 2, Len(name)) = Tail(glob)
    ELSE glob = name

RuleMatches(rule, segments, isDir) ==
    /\ rule.dirOnly => isDir
    /\ rule.segments # <<>>
    /\ IF rule.anchored
       THEN /\ Len(rule.segments) = Len(segments)
            /\ \A i \in 1..Len(segments) : SegmentMatches(rule.segments[i], segments[i])
       ELSE /\ Len(rule.segments) <= Len(segments)
            /\ \A i \in 1..Len(rule.segments) :
                   SegmentMatches(rule.segments[i],
                       segments[Len(segments) - Len(rule.segments) + i])

\* The rules in order, the last rule that matches decides.
TestOne(rules, segments, isDir) ==
    LET hits == {i \in 1..Len(rules) : RuleMatches(rules[i], segments, isDir)}
    IN  hits # {} /\ ~rules[CHOOSE i \in hits : \A j \in hits : j <= i].negative

\* ig.ignores(relative): a path below an ignored directory is ignored;
\* otherwise the path itself is tested.
Ignores(rules, path) ==
    ApplyTo(rules, LAMBDA set :
    ApplyTo(PathSegments(path), LAMBDA segments :
        \E k \in 1..Len(segments) :
            TestOne(set, SubSeq(segments, 1, k), k < Len(segments))))

\* Mutant: the caller's exclude globs are added before the patterns of the
\* ignore files.
buildIgnoreCallerFirst(setup) ==
    ApplyTo(setup.excludeGlobs
                \o readIgnoreFile(setup.gitignore)
                \o readIgnoreFile(setup.llmignore),
        LAMBDA patterns :
            Tuple([i \in 1..Len(patterns) |-> IgnoreRule(patterns[i])]))

\* buildIgnore: the patterns of .gitignore, then of .llmignore, then the
\* caller's exclude globs.
buildIgnore(setup) ==
    ApplyTo(readIgnoreFile(setup.gitignore)
                \o readIgnoreFile(setup.llmignore)
                \o setup.excludeGlobs,
        LAMBDA patterns :
            Tuple([i \in 1..Len(patterns) |-> IgnoreRule(patterns[i])]))

\* The ignore option of the fast-glob call: node_modules/**, .git/**, dist/**.
GlobIgnoredDirs == {
    <<"n","o","d","e","_","m","o","d","u","l","e","s">>,
    <<".","g","i","t">>,
    <<"d","i","s","t">> }
GlobIgnored(path) ==
    LET segments == PathSegments(path)
    IN  Len(segments) >= 2 /\ segments[1] \in GlobIgnoredDirs

\* options.maxFileSizeBytes ?? DEFAULT_MAX_FILE_SIZE_BYTES
EffectiveMaxFileSize(setup) ==
    IF setup.hasMaxFileSizeBytes THEN setup.maxFileSizeBytes
    ELSE DEFAULT_MAX_FILE_SIZE_BYTES

RootDir == <<"/","r">>

\* path.join(rootDir, relative)
JoinRoot(relative) == RootDir \o <<"/">> \o relative

\* Mutant: the size check comes first and the binary flag is set as well.
ClassifySizeFirst(relative, effectivePath, sizeBytes, binary, data, maxFileSizeBytes) ==
    LET big == sizeBytes > maxFileSizeBytes
    IN  [path |-> relative, absolutePath |-> effectivePath, sizeBytes |-> sizeBytes,
         isBinary |-> binary, isOversized |-> big,
         hasContent |-> ~big /\ ~binary,
         content |-> IF ~big /\ ~binary THEN data ELSE <<>>]

\* Mutant: a file of exactly maxFileSizeBytes counts as oversized.
ClassifyAtLimit(relative, effectivePath, sizeBytes, binary, data, maxFileSizeBytes) ==
    [path |-> relative, absolutePath |-> effectivePath, sizeBytes |-> sizeBytes,
     isBinary |-> binary,
     isOversized |-> ~binary /\ sizeBytes >= maxFileSizeBytes,
     hasContent |-> ~binary /\ sizeBytes < maxFileSizeBytes,
     content |-> IF ~binary /\ sizeBytes < maxFileSizeBytes THEN data ELSE <<>>]

\* The ScannedFile of one entry: the binary check first, then the size
\* check, then the content as it was read.
Classify(relative, effectivePath, sizeBytes, binary, data, maxFileSizeBytes) ==
    IF binary
    THEN [path |-> relative, absolutePath |-> effectivePath, sizeBytes |-> sizeBytes,
          isBinary |-> TRUE, isOversized |-> FALSE,
          hasContent |-> FALSE, content |-> <<>>]
    ELSE IF sizeBytes > maxFileSizeBytes
    THEN [path |-> relative, absolutePath |-> effectivePath, sizeBytes |-> sizeBytes,
          isBinary |-> FALSE, isOversized |-> TRUE,
          hasContent |-> FALSE, content |-> <<>>]
    ELSE [path |-> relative, absolutePath |-> effectivePath, sizeBytes |-> sizeBytes,
          isBinary |-> FALSE, isOversized |-> FALSE,
          hasContent |-> TRUE, content |-> data]

-----------------------------------------------------------------------------
(* aggregateDirectoryTokens *)

\* Mutant: the loop bound is segments.length, so the file itself becomes a key.
RECURSIVE AddToAncestorsAndSelf(_, _, _, _)
AddToAncestorsAndSelf(m, segments, tokens, i) ==
    IF i < Len(segments)
    THEN LET dirPath == Join(Slice(segments, 0, i + 1), "/")
         IN  AddToAncestorsAndSelf(
                 MapSet(m, dirPath, MapGetOr(m, dirPath, 0) + tokens),
                 segments, tokens, i + 1)
    ELSE m

\* Mutant: only the immediate parent directory accumulates the tokens.
AddToParentOnly(m, segments, tokens, i) ==
    IF Len(segments) >= 2
    THEN LET dirPath == Join(Slice(segments, 0, Len(segments) - 1), "/")
         IN  MapSet(m, dirPath, MapGetOr(m, dirPath, 0) + tokens)
    ELSE m

\* The inner loop: for (let i = 0; i < segments.length - 1; i++).
RECURSIVE AddToAncestors(_, _, _, _)
AddToAncestors(m, segments, tokens, i) ==
    IF i < Len(segments) - 1
    THEN LET dirPath == Join(Slice(segments, 0, i + 1), "/")
         IN  AddToAncestors(MapSet(m, dirPath, MapGetOr(m, dirPath, 0) + tokens),
                            segments, tokens, i + 1)
    ELSE m

\* Mutant: stats with tokens <= 0 are not skipped.
RECURSIVE AggregateFromEveryStat(_, _, _)
AggregateFromEveryStat(m, fileTokenStats, k) ==
    IF k > Len(fileTokenStats) THEN m
    ELSE AggregateFromEveryStat(
             AddToAncestors(m, PathSegments(fileTokenStats[k].path),
                            fileTokenStats[k].tokens, 0),
             fileTokenStats, k + 1)

\* The outer loop over fileTokenStats, skipping stats with tokens <= 0.
RECURSIVE AggregateFrom(_, _, _)
AggregateFrom(m, fileTokenStats, k) ==
    IF k > Len(fileTokenStats) THEN m
    ELSE LET stat == fileTokenStats[k]
         IN  IF stat.tokens <= 0
             THEN AggregateFrom(m, fileTokenStats, k + 1)
             ELSE AggregateFrom(
                      AddToAncestors(m, PathSegments(stat.path), stat.tokens, 0),
                      fileTokenStats, k + 1)

\* fileTokenStats.reduce((sum, stat) => sum + stat.tokens, 0)
RECURSIVE SumTokens(_)
SumTokens(fileTokenStats) ==
    IF fileTokenStats = <<>> THEN 0
    ELSE Head(fileTokenStats).tokens + SumTokens(Tail(fileTokenStats))

aggregateDirectoryTokens(fileTokenStats) ==
    MapSet(AggregateFrom(EmptyMap, fileTokenStats, 1), <<>>, SumTokens(fileTokenStats))

-----------------------------------------------------------------------------
(* inferLanguage, xmlEscape, getPersonaHeader, slugifyHeading *)

\* value.toLowerCase()
ToLowerCase(value) ==
    Tuple([i \in 1..Len(value) |->
        IF value[i] \in Upper THEN LowerSeq[IndexIn(UpperSeq, value[i])] ELSE value[i]])

\* path.extname(filePath): from the last "." of the last segment, unless the
\* segment has none or starts with its only one.
ExtName(filePath) ==
    LET segments == PathSegments(filePath)
        base == IF segments = <<>> THEN <<>> ELSE segments[Len(segments)]
        dots == {i \in 1..Len(base) : base[i] = "."}
        lastDot == CHOOSE i \in dots : \A j \in dots : j <= i
    IN  IF dots = {} \/ lastDot = 1 THEN <<>>
        ELSE SubSeq(base, lastDot, Len(base))

\* inferLanguage: the fence tag of an extension, "" for undefined.
inferLanguage(filePath) ==
    LET ext == ToLowerCase(ExtName(filePath))
    IN  CASE ext \in {<<".","t","s">>, <<".","t","s","x">>} -> "ts"
          [] ext \in {<<".","j","s">>, <<".","c","j","s">>, <<".","m","j","s">>} -> "js"
          [] ext = <<".","j","s","o","n">> -> "json"
          [] ext = <<".","m","d">> -> "md"
          [] ext = <<".","p","y">> -> "py"
          [] ext = <<".","j","a","v","a">> -> "java"
          [] ext = <<".","g","o">> -> "go"
          [] ext = <<".","r","s">> -> "rust"
          [] ext \in {<<".","y","m","l">>, <<".","y","a","m","l">>} -> "yaml"
          [] OTHER -> ""

\* value.replace(/c/g, entity) for one character c.
ReplaceChar(value, c, entity) ==
    ApplyTo(value, LAMBDA v :
        Concat(Tuple([i \in 1..Len(v) |-> IF v[i] = c THEN entity ELSE <<v[i]>>])))

\* Mutant: the ampersand is replaced last.
xmlEscapeAmpersandLast(value) ==
    ReplaceChar(
        ReplaceChar(
            ReplaceChar(
                ReplaceChar(
                    ReplaceChar(value, "<", <<"&","l","t",";">>),
                    ">", <<"&","g","t",";">>),
                "\"", <<"&","q","u","o","t",";">>),
            "'", <<"&","a","p","o","s",";">>),
        "&", <<"&","a","m","p",";">>)

\* xmlEscape: the five replacements, the ampersand first.
xmlEscape(value) ==
    ReplaceChar(
        ReplaceChar(
            ReplaceChar(
                ReplaceChar(
                    ReplaceChar(value, "&", <<"&","a","m","p",";">>),
                    "<", <<"&","l","t",";">>),
                ">", <<"&","g","t",";">>),
            "\"", <<"&","q","u","o","t",";">>),
        "'", <<"&","a","p","o","s",";">>)

getPersonaHeader(type) ==
    CASE type = "architect" ->
             "You are a Senior Software Architect. Review this codebase for modularity, scalability, and adherence to SOLID principles."
      [] type = "security" ->
             "You are a Cyber Security Auditor. Scan this code for XSS, SQL injection, and insecure dependency patterns."
      [] type = "refactor" ->
             "You are a Clean Code Expert. Suggest ways to reduce complexity and improve readability."

\* Mutant: the letter case is kept and capital letters go with the rest.
slugifyHeadingCaseKept(value) ==
    SelectSeq(value, LAMBDA c : c \in Lower \cup Digit)

\* slugifyHeading: lower case, every run outside [a-z0-9] removed.
slugifyHeading(value) ==
    SelectSeq(ToLowerCase(value), LAMBDA c : c \in Lower \cup Digit)

-----------------------------------------------------------------------------
(* computeFileTokenStats and formatOutput *)

\* file.content is truthy: present and not the empty string.
HasText(file) == file.hasContent /\ file.content # <<>>

\* Mutant: the flags are not looked at, only the content.
OmittedWithoutContent(file) == ~HasText(file)

\* !file.content || file.isBinary || file.isOversized
IsOmitted(file) == ~HasText(file) \/ file.isBinary \/ file.isOversized

\* The redaction loop of formatOutput: the overlay, the number of matches,
\* and (to count them) the calls of redactSecrets per path.
RECURSIVE RedactFiles(_, _, _)
RedactFiles(sortedFiles, k, acc) ==
    IF k > Len(sortedFiles) THEN acc
    ELSE LET file == sortedFiles[k]
             r == redactSecrets(file.content)
         IN  IF ~IsOmitted(file)
             THEN RedactFiles(sortedFiles, k + 1,
                      [redactedByPath |-> MapSet(acc.redactedByPath, file.path, r.redacted),
                       totalRedactions |-> acc.totalRedactions + r.count,
                       calls |-> MapSet(acc.calls, file.path,
                                        MapGetOr(acc.calls, file.path, 0) + 1)])
             ELSE RedactFiles(sortedFiles, k + 1, acc)

\* encodingForModel("gpt-4o-mini").encode(text).length: every character that
\* is not a word character is a token, and a run of word characters is one
\* token per four characters.
EncodeLength(text) ==
    LET starts == {i \in 1..Len(text) :
                      text[i] \in WordChars /\ (i = 1 \/ text[i - 1] \notin WordChars)}
        others == {i \in 1..Len(text) : text[i] \notin WordChars}
        chunks == [i \in starts |-> (RunLen(text, i, WordChars) + 3) \div 4]
    IN  Cardinality(others) + SumOver(starts, chunks)

\* Mutant: the tokens are counted on the raw content.
RawContentForTokens(file, redactedByPath) == file.content

\* redactedByPath.get(file.path) ?? file.content
ContentForTokens(file, redactedByPath) ==
    MapGetOr(redactedByPath, file.path, file.content)

\* computeFileTokenStats: the stats, the total, and (to compare them) the
\* texts that were handed to the tokenizer, by path.
RECURSIVE TokenStatsFrom(_, _, _, _)
TokenStatsFrom(fileList, redactedByPath, k, acc) ==
    IF k > Len(fileList) THEN acc
    ELSE LET file == fileList[k]
             contentForTokens == ContentForTokens(file, redactedByPath)
             tokens == EncodeLength(contentForTokens)
         IN  IF IsOmitted(file)
             THEN TokenStatsFrom(fileList, redactedByPath, k + 1,
                      [acc EXCEPT !.fileTokenStats =
                          Append(@, [path |-> file.path, tokens |-> 0])])
             ELSE TokenStatsFrom(fileList, redactedByPath, k + 1,
                      [fileTokenStats |->
                           Append(acc.fileTokenStats, [path |-> file.path, tokens |-> tokens]),
                       totalTokens |-> acc.totalTokens + tokens,
                       encoded |-> MapSet(acc.encoded, file.path, contentForTokens)])

\* Mutant: a file whose content is not inlined gets no stat.
computeFileTokenStatsInlinedOnly(fileList, redactedByPath) ==
    TokenStatsFrom(SelectSeq(fileList, LAMBDA file : ~IsOmitted(file)), redactedByPath, 1,
        [fileTokenStats |-> <<>>, totalTokens |-> 0, encoded |-> EmptyMap])

computeFileTokenStats(fileList, redactedByPath) ==
    TokenStatsFrom(fileList, redactedByPath, 1,
        [fileTokenStats |-> <<>>, totalTokens |-> 0, encoded |-> EmptyMap])

\* "package.json" and a text JSON.parse accepts:
\* {"dependencies":{"react":"1","express":"2"}}
PackageJsonPath == <<"p","a","c","k","a","g","e",".","j","s","o","n">>
PackageJsonText ==
    <<"{","\"","d","e","p","e","n","d","e","n","c","i","e","s","\"",":","{",
      "\"","r","e","a","c","t","\"",":","\"","1","\"",",",
      "\"","e","x","p","r","e","s","s","\"",":","\"","2","\"","}","}">>

\* The names under dependencies and devDependencies of a package.json text;
\* a text JSON.parse rejects declares none (the catch block).
DeclaredDependencies(text) ==
    IF text = PackageJsonText THEN {"react", "express"} ELSE {}

\* The technologies the dependencies stand for, in the order sort() gives
\* their labels.
TechTable == <<
    <<"@angular/core", "Angular">>, <<"apollo-server", "Apollo Server">>,
    <<"express", "Express">>, <<"fastify", "Fastify">>,
    <<"graphql-yoga", "GraphQL Yoga">>, <<"koa", "Koa">>,
    <<"mongoose", "Mongoose">>, <<"@nestjs/core", "NestJS">>,
    <<"next", "Next.js">>, <<"prisma", "Prisma">>, <<"react", "React">>,
    <<"remix", "Remix">>, <<"sequelize", "Sequelize">>, <<"svelte", "Svelte">>,
    <<"typeorm", "TypeORM">>, <<"vue", "Vue">>, <<"hapi", "hapi">> >>

\* sortedFiles.find(f => f.path === "package.json" && typeof f.content ===
\* "string"), JSON.parse, and Array.from(techStack).sort().
TechStack(sortedFiles) ==
    LET found == {i \in 1..Len(sortedFiles) :
                     sortedFiles[i].path = PackageJsonPath /\ sortedFiles[i].hasContent}
        pkgFile == sortedFiles[CHOOSE i \in found : \A j \in found : i <= j]
        deps == IF found # {} /\ HasText(pkgFile)
                THEN DeclaredDependencies(pkgFile.content) ELSE {}
        rows == SelectSeq(TechTable, LAMBDA row : row[1] \in deps)
    IN  Tuple([i \in 1..Len(rows) |-> rows[i][2]])

\* Mutant: any task that is given counts, a blank one as well.
HasTaskGiven(options) == options.hasTask

\* options.task && options.task.trim().length > 0
HasTask(options) == options.hasTask /\ Trim(options.task) # <<>>

\* Mutant: the persona text is pushed after the other lines of the header.
HeaderLinesPersonaLast(options, totalFiles, totalTokens, techStack, totalRedactions) ==
    <<[kind |-> "root", rootDir |-> options.rootDir],
      [kind |-> "totalFiles", count |-> totalFiles],
      [kind |-> "totalTokens", count |-> totalTokens]>>
    \o (IF techStack # <<>>
        THEN <<[kind |-> "techStack", labels |-> techStack]>> ELSE <<>>)
    \o (IF HasTask(options) THEN <<[kind |-> "taskStatus"]>> ELSE <<>>)
    \o (IF totalRedactions > 0
        THEN <<[kind |-> "safetyRedacted", count |-> totalRedactions]>>
        ELSE <<[kind |-> "safetyNone"]>>)
    \o (IF options.hasPersona
        THEN <<[kind |-> "persona", text |-> getPersonaHeader(options.persona)]>>
        ELSE <<>>)

\* headerLines, one record per line.
HeaderLines(options, totalFiles, totalTokens, techStack, totalRedactions) ==
    (IF options.hasPersona
     THEN <<[kind |-> "persona", text |-> getPersonaHeader(options.persona)]>>
     ELSE <<>>)
    \o <<[kind |-> "root", rootDir |-> options.rootDir],
         [kind |-> "totalFiles", count |-> totalFiles],
         [kind |-> "totalTokens", count |-> totalTokens]>>
    \o (IF techStack # <<>>
        THEN <<[kind |-> "techStack", labels |-> techStack]>> ELSE <<>>)
    \o (IF HasTask(options) THEN <<[kind |-> "taskStatus"]>> ELSE <<>>)
    \o (IF totalRedactions > 0
        THEN <<[kind |-> "safetyRedacted", count |-> totalRedactions]>>
        ELSE <<[kind |-> "safetyNone"]>>)

\* A pushed part that is a fixed string.
Lit(text) == [kind |-> "literal", text |-> text]

\* Three grave accents, named by code point.
CodeFence == "U+0060 U+0060 U+0060"

BinaryNote ==
    <<"(","b","i","n","a","r","y"," ","f","i","l","e",","," ","c","o","n","t",
      "e","n","t","s"," ","n","o","t"," ","i","n","c","l","u","d","e","d",")">>
OversizedNote ==
    <<"(","f","i","l","e"," ",">","1","0","0","K","B",","," ","c","o","n","t",
      "e","n","t","s"," ","s","k","i","p","p","e","d",")">>
EmptyNote == <<"(","n","o"," ","c","o","n","t","e","n","t",")">>

\* The note of a file whose content is not inlined: binary before oversized
\* before empty.
NoteOf(file) ==
    IF file.isBinary THEN BinaryNote
    ELSE IF file.isOversized THEN OversizedNote
    ELSE EmptyNote

\* redactedByPath.get(file.path) ?? file.content, as a section shows it.
SectionText(file, redactedByPath) ==
    MapGetOr(redactedByPath, file.path, file.content)

\* The <file> elements of the xml format.
XmlFileParts(sortedFiles, redactedByPath) ==
    Tuple([i \in 1..Len(sortedFiles) |->
        [kind |-> "xmlFile",
         attrs |-> xmlEscape(sortedFiles[i].path),
         body |-> IF IsOmitted(sortedFiles[i])
                  THEN xmlEscape(NoteOf(sortedFiles[i]))
                  ELSE xmlEscape(SectionText(sortedFiles[i], redactedByPath))]])

XmlParts(sortedFiles, options, treeText, headerLines, redactedByPath) ==
    <<Lit("<epistle>"), Lit("<tree><![CDATA["),
      [kind |-> "tree", lines |-> treeText], Lit("]]></tree>"),
      Lit("<metadata><![CDATA["),
      [kind |-> "header", lines |-> headerLines], Lit("]]></metadata>")>>
    \o (IF HasTask(options)
        THEN <<Lit("<task><![CDATA["), [kind |-> "task", text |-> options.task],
               Lit("]]></task>")>>
        ELSE <<>>)
    \o XmlFileParts(sortedFiles, redactedByPath)
    \o <<Lit("</epistle>")>>

\* Mutant: a file whose content is not inlined is listed as well.
TocPartsUnfiltered(sortedFiles) ==
    Tuple([i \in 1..Len(sortedFiles) |->
        [kind |-> "toc", path |-> sortedFiles[i].path,
         slug |-> slugifyHeading(sortedFiles[i].path)]])

\* The table of contents of the markdown format.
TocParts(sortedFiles) ==
    LET listed == SelectSeq(sortedFiles, LAMBDA file : ~IsOmitted(file))
    IN  Tuple([i \in 1..Len(listed) |->
            [kind |-> "toc", path |-> listed[i].path,
             slug |-> slugifyHeading(listed[i].path)]])

\* The section of one file in the markdown format.
MdSection(file, redactedByPath) ==
    <<[kind |-> "heading", path |-> file.path, slug |-> slugifyHeading(file.path)]>>
    \o (IF IsOmitted(file)
        THEN <<Lit(""), [kind |-> "note", text |-> NoteOf(file)], Lit("")>>
        ELSE <<Lit(""), [kind |-> "fence", lang |-> inferLanguage(file.path)],
               [kind |-> "content", text |-> SectionText(file, redactedByPath)],
               Lit(CodeFence), Lit("")>>)

MdParts(sortedFiles, options, treeText, headerLines, redactedByPath) ==
    <<Lit(CodeFence)>>
    \o (IF treeText # <<>> THEN <<[kind |-> "tree", lines |-> treeText]>> ELSE <<>>)
    \o <<Lit(CodeFence), Lit(""), Lit("## Table of Contents"), Lit("")>>
    \o TocParts(sortedFiles)
    \o <<Lit(""), Lit(CodeFence), [kind |-> "header", lines |-> headerLines],
         Lit(CodeFence), Lit("")>>
    \o Concat(Tuple([i \in 1..Len(sortedFiles) |->
                  MdSection(sortedFiles[i], redactedByPath)]))
    \o (IF HasTask(options)
        THEN <<Lit("## User Task / Instructions"), Lit(""), Lit(CodeFence),
               [kind |-> "task", text |-> options.task], Lit(CodeFence), Lit("")>>
        ELSE <<>>)

\* Mutant: the caller's array is sorted in place.
SortedInPlace(fileList) ==
    [files |-> SortFilesByPath(fileList), sortedFiles |-> SortFilesByPath(fileList)]

\* const sortedFiles = [...files].sort(...): the sort works on a copy of the
\* array; files is the caller's array as the statement leaves it. No later
\* statement assigns to the array or to a field of one of its elements.
SortedCopy(fileList) ==
    [files |-> fileList, sortedFiles |-> SortFilesByPath(fileList)]

\* formatOutput: the returned object (output as the parts that are joined
\* with "\n"), and what the call did on the way (the overlay, the calls of
\* redactSecrets, the texts handed to the tokenizer).
formatOutput(fileList, options) ==
    ApplyTo(SortedCopy(fileList), LAMBDA arrays :
    ApplyTo(arrays.sortedFiles, LAMBDA sortedFiles :
    ApplyTo(renderTree(buildTree(sortedFiles)), LAMBDA treeText :
    ApplyTo(RedactFiles(sortedFiles, 1,
                [redactedByPath |-> EmptyMap, totalRedactions |-> 0,
                 calls |-> EmptyMap]), LAMBDA redactionResult :
    ApplyTo(computeFileTokenStats(sortedFiles, redactionResult.redactedByPath),
        LAMBDA tokenStats :
    ApplyTo(HeaderLines(options, Len(sortedFiles), tokenStats.totalTokens,
                TechStack(sortedFiles), redactionResult.totalRedactions),
        LAMBDA headerLines :
        [output |->
             IF options.format = "xml"
             THEN XmlParts(sortedFiles, options, treeText, headerLines,
                           redactionResult.redactedByPath)
             ELSE MdParts(sortedFiles, options, treeText, headerLines,
                          redactionResult.redactedByPath),
         totalTokens |-> tokenStats.totalTokens,
         fileTokenStats |-> tokenStats.fileTokenStats,
         dirTokenMap |-> aggregateDirectoryTokens(tokenStats.fileTokenStats),
         redactedByPath |-> redactionResult.redactedByPath,
         redactCalls |-> redactionResult.calls,
         encoded |-> tokenStats.encoded,
         files |-> arrays.files]))))))

-----------------------------------------------------------------------------
(* The hog report of bin.ts: parseHogDepth, getDirDepth, computeTopFileHogs, *)
(* computeTopDirHogs, computeAutoDirDepth, computeHogsForProject             *)

\* The value of a string of decimal digits.
RECURSIVE DigitsValue(_)
DigitsValue(ds) ==
    IF ds = <<>> THEN 0
    ELSE 10 * DigitsValue(SubSeq(ds, 1, Len(ds) - 1))
         + (IndexIn(DigitSeq, ds[Len(ds)]) - 1)

InfinityText == <<"I","n","f","i","n","i","t","y">>

\* Number(raw), for the texts a decimal literal with an optional sign and an
\* optional fraction, "Infinity", and texts that are no number at all: whether
\* it is NaN, whether it is finite, its sign, and Math.floor of its magnitude.
NumberOf(raw) ==
    LET t == Trim(raw)
        negative == t # <<>> /\ t[1] = "-"
        body == IF t # <<>> /\ t[1] \in {"-", "+"} THEN Tail(t) ELSE t
        dots == {i \in 1..Len(body) : body[i] = "."}
        whole == IF dots = {} THEN body
                 ELSE SubSeq(body, 1, (CHOOSE i \in dots : TRUE) - 1)
        fraction == IF dots = {} THEN <<>>
                    ELSE SubSeq(body, (CHOOSE i \in dots : TRUE) + 1, Len(body))
        numeric == /\ Cardinality(dots) <= 1
                   /\ Len(whole) + Len(fraction) > 0
                   /\ \A i \in 1..Len(body) : body[i] \in Digit \cup {"."}
        nonZero == \E i \in 1..Len(body) : body[i] \in Digit \ {"0"}
    IN  IF t = <<>>
        THEN [isNaN |-> FALSE, isFinite |-> TRUE, positive |-> FALSE, floor |-> 0]
        ELSE IF body = InfinityText
        THEN [isNaN |-> FALSE, isFinite |-> FALSE, positive |-> ~negative, floor |-> 0]
        ELSE IF ~numeric
        THEN [isNaN |-> TRUE, isFinite |-> FALSE, positive |-> FALSE, floor |-> 0]
        ELSE [isNaN |-> FALSE, isFinite |-> TRUE, positive |-> nonZero /\ ~negative,
              floor |-> DigitsValue(whole)]

AutoText == <<"a","u","t","o">>

\* parseHogDepth(raw): raw is absent (hasRaw false) or a text.
parseHogDepth(hasRaw, raw) ==
    LET n == NumberOf(raw)
    IN  IF ~hasRaw \/ raw = <<>> \/ Trim(raw) = <<>> \/ raw = <<"0">>
        THEN [mode |-> "files", hasDepth |-> FALSE, depth |-> 0]
        ELSE IF ToLowerCase(raw) = AutoText
        THEN [mode |-> "auto", hasDepth |-> FALSE, depth |-> 0]
        ELSE IF ~n.isNaN /\ n.positive /\ n.isFinite
        THEN [mode |-> "dirs", hasDepth |-> TRUE, depth |-> n.floor]
        ELSE [mode |-> "files", hasDepth |-> FALSE, depth |-> 0]

\* getDirDepth
getDirDepth(pathStr) ==
    IF pathStr = <<>> THEN 0 ELSE Len(FilterBoolean(Split(pathStr, "/")))

\* values.sort((a, b) => b.tokens - a.tokens): stable, most tokens first.
SortByTokensDescending(values) ==
    LET n == Len(values)
        rank == Tuple([i \in 1..n |->
                    1 + Cardinality({j \in 1..n :
                            \/ values[j].tokens > values[i].tokens
                            \/ (values[j].tokens = values[i].tokens /\ j < i)})])
    IN  Tuple([r \in 1..n |-> values[CHOOSE i \in 1..n : rank[i] = r]])

\* Mutant: files without tokens are not left out.
TopFileHogsUnfiltered(fileTokenStats, limit) ==
    LET top == Slice(SortByTokensDescending(fileTokenStats), 0, limit)
    IN  Tuple([i \in 1..Len(top) |->
            [path |-> top[i].path, tokens |-> top[i].tokens, isDir |-> FALSE]])

\* computeTopFileHogs
computeTopFileHogs(fileTokenStats, limit) ==
    LET positive == SelectSeq(fileTokenStats, LAMBDA s : s.tokens > 0)
        top == Slice(SortByTokensDescending(positive), 0, limit)
    IN  Tuple([i \in 1..Len(top) |->
            [path |-> top[i].path, tokens |-> top[i].tokens, isDir |-> FALSE]])

\* The keys of the map aggregateDirectoryTokens returns, in the order it set
\* them first: the order in which entries() yields them.
RECURSIVE KeysOfAncestors(_, _, _)
KeysOfAncestors(keys, segments, i) ==
    IF i < Len(segments) - 1
    THEN LET dirPath == Join(Slice(segments, 0, i + 1), "/")
         IN  KeysOfAncestors(IF InSeq(dirPath, keys) THEN keys ELSE Append(keys, dirPath),
                             segments, i + 1)
    ELSE keys

RECURSIVE KeysFrom(_, _, _)
KeysFrom(keys, fileTokenStats, k) ==
    IF k > Len(fileTokenStats) THEN keys
    ELSE IF fileTokenStats[k].tokens <= 0 THEN KeysFrom(keys, fileTokenStats, k + 1)
    ELSE KeysFrom(KeysOfAncestors(keys, PathSegments(fileTokenStats[k].path), 0),
                  fileTokenStats, k + 1)

\* dirTokenMap.entries() of the map made from fileTokenStats.
MapEntries(fileTokenStats) ==
    ApplyTo(aggregateDirectoryTokens(fileTokenStats), LAMBDA m :
    ApplyTo(KeysFrom(<<>>, fileTokenStats, 1), LAMBDA set :
        LET keys == IF InSeq(<<>>, set) THEN set ELSE Append(set, <<>>)
        IN  Tuple([i \in 1..Len(keys) |-> [dirPath |-> keys[i], tokens |-> m[keys[i]]]])))

\* Mutant: the depth of a directory is not looked at.
TopDirHogsAnyDepth(dirEntries, depth, limit) ==
    LET kept == SelectSeq(dirEntries, LAMBDA e : e.dirPath # <<>> /\ e.tokens > 0)
        hogEntries == Tuple([i \in 1..Len(kept) |->
                          [path |-> kept[i].dirPath \o <<"/">>, tokens |-> kept[i].tokens,
                           isDir |-> TRUE]])
    IN  Slice(SortByTokensDescending(hogEntries), 0, limit)

\* computeTopDirHogs, over the entries of the map.
computeTopDirHogs(dirEntries, depth, limit) ==
    LET kept == SelectSeq(dirEntries, LAMBDA e :
                    /\ e.dirPath # <<>>
                    /\ ~(e.tokens <= 0)
                    /\ getDirDepth(e.dirPath) = depth)
        hogEntries == Tuple([i \in 1..Len(kept) |->
                          [path |-> kept[i].dirPath \o <<"/">>, tokens |-> kept[i].tokens,
                           isDir |-> TRUE]])
    IN  Slice(SortByTokensDescending(hogEntries), 0, limit)

\* Mutant: the largest depth is taken.
AutoDirDepthDeepest(dirEntries) ==
    LET depths == {getDirDepth(dirEntries[i].dirPath) :
                      i \in {j \in DOMAIN dirEntries :
                                dirEntries[j].dirPath # <<>> /\ dirEntries[j].tokens > 0}}
    IN  IF depths = {} THEN [hasDepth |-> FALSE, depth |-> 0]
        ELSE [hasDepth |-> TRUE, depth |-> CHOOSE d \in depths : \A e \in depths : e <= d]

\* computeAutoDirDepth: Math.min of the depths of the positive directories,
\* undefined (hasDepth false) when there is none.
computeAutoDirDepth(dirEntries) ==
    LET depths == {getDirDepth(dirEntries[i].dirPath) :
                      i \in {j \in DOMAIN dirEntries :
                                dirEntries[j].dirPath # <<>> /\ dirEntries[j].tokens > 0}}
    IN  IF depths = {} THEN [hasDepth |-> FALSE, depth |-> 0]
        ELSE [hasDepth |-> TRUE, depth |-> CHOOSE d \in depths : \A e \in depths : d <= e]

\* computeHogsForProject; hasHogDepth tells whether hogDepth is a number.
computeHogsForProject(fileTokenStats, dirEntries, totalTokens, hasRaw, hogDepthRaw) ==
    LET parsed == parseHogDepth(hasRaw, hogDepthRaw)
        auto == computeAutoDirDepth(dirEntries)
        d == IF parsed.hasDepth THEN parsed.depth ELSE 1
        autoDepth == IF parsed.hasDepth THEN parsed.depth
                     ELSE IF auto.hasDepth THEN auto.depth ELSE 1
    IN  IF totalTokens <= 0
        THEN [hogMode |-> parsed.mode, hasHogDepth |-> parsed.hasDepth,
              hogDepth |-> parsed.depth, hogEntries |-> <<>>]
        ELSE IF parsed.mode = "files"
        THEN [hogMode |-> parsed.mode, hasHogDepth |-> TRUE, hogDepth |-> 0,
              hogEntries |-> computeTopFileHogs(fileTokenStats, 5)]
        ELSE IF parsed.mode = "dirs"
        THEN [hogMode |-> parsed.mode, hasHogDepth |-> TRUE, hogDepth |-> d,
              hogEntries |-> computeTopDirHogs(dirEntries, d, 5)]
        ELSE [hogMode |-> parsed.mode, hasHogDepth |-> TRUE, hogDepth |-> autoDepth,
              hogEntries |-> computeTopFileHogs(fileTokenStats, 3)
                             \o computeTopDirHogs(dirEntries, autoDepth, 2)]

-----------------------------------------------------------------------------
(* main of bin.ts: options, output path, exclude globs, effects *)

TOKEN_BUDGET_WARNING == 50000

MarkdownText == <<"m","a","r","k","d","o","w","n">>
XmlText == <<"x","m","l">>
ArchitectText == <<"a","r","c","h","i","t","e","c","t">>
SecurityText == <<"s","e","c","u","r","i","t","y">>
RefactorText == <<"r","e","f","a","c","t","o","r">>
ArchText == <<"a","r","c","h">>
SecText == <<"s","e","c">>
RefText == <<"r","e","f">>

\* Mutant: every format value passes.
FormatSupportedAlways(format) == TRUE

\* format !== "markdown" && format !== "xml" is false
FormatSupported(format) == format \in {MarkdownText, XmlText}

\* PERSONA_ALIASES[key] ?? key
resolvePersona(raw) ==
    LET key == ToLowerCase(raw)
    IN  CASE key = ArchText -> ArchitectText
          [] key = SecText -> SecurityText
          [] key = RefText -> RefactorText
          [] OTHER -> key

\* resolved === "architect" || resolved === "security" || resolved === "refactor"
PersonaSupported(resolved) == resolved \in {ArchitectText, SecurityText, RefactorText}

personaToDefaultSlug(persona) ==
    CASE persona = ArchitectText -> ArchText
      [] persona = SecurityText -> SecText
      [] persona = RefactorText -> RefText

\* The OutputFormat and the PersonaType as formatOutput takes them.
FormatOf(format) == IF format = XmlText THEN "xml" ELSE "markdown"
PersonaOf(persona) ==
    CASE persona = ArchitectText -> "architect"
      [] persona = SecurityText -> "security"
      [] persona = RefactorText -> "refactor"
      [] OTHER -> Undefined

\* What lite mode pushes onto excludeGlobs.
LiteGlobs == <<
    <<"*","*","/","*",".","c","s","s">>, <<"*","*","/","*",".","s","c","s","s">>, <<"*","*","/","*",".","s","a","s","s">>, <<"*","*","/","*",".","l","e","s","s">>, <<"*","*","/","*",".","j","s","o","n">>,
    <<"*","*","/","*",".","s","v","g">>, <<"*","*","/","*",".","p","n","g">>, <<"*","*","/","*",".","j","p","g">>, <<"*","*","/","*",".","j","p","e","g">>, <<"*","*","/","*",".","i","c","o">>,
    <<"*","*","/","*",".","t","t","f">>, <<"*","*","/","*",".","o","t","f">>, <<"*","*","/","*",".","w","o","f","f">>, <<"*","*","/","*",".","w","o","f","f","2">>,
    <<"!","p","a","c","k","a","g","e",".","j","s","o","n">> >>

EpistlePrefix == <<"e","p","i","s","t","l","e","-">>
MdSuffix == <<".","m","d">>
ContextMd == <<"c","o","n","t","e","x","t",".","m","d">>
EpistleSecMd == <<"e","p","i","s","t","l","e","-","s","e","c",".","m","d">>

\* What main settles before the spinner starts and at the head of the try
\* block: the format, the persona, the output path and excludeGlobs.
\* outputRel is path.relative(rootDir, outputPath) of a path below the root.
ResolveRun(opts) ==
    LET format == ToLowerCase(opts.format)
        rawPersona == ToLowerCase(opts.persona)
        hasRaw == opts.hasPersona /\ rawPersona # <<>>
        resolved == resolvePersona(rawPersona)
        hasPersona == hasRaw /\ PersonaSupported(resolved)
        hasOutput == opts.hasOutput /\ opts.output # <<>>
        outputRel == IF hasOutput THEN opts.output
                     ELSE IF hasPersona
                     THEN EpistlePrefix \o personaToDefaultSlug(resolved) \o MdSuffix
                     ELSE <<>>
        hasOutputPath == hasOutput \/ hasPersona
    IN  [formatValid |-> FormatSupported(format),
         personaValid |-> ~hasRaw \/ PersonaSupported(resolved),
         format |-> format,
         hasPersona |-> hasPersona,
         persona |-> IF hasPersona THEN resolved ELSE <<>>,
         hasOutputPath |-> hasOutputPath,
         outputRel |-> outputRel,
         outputPath |-> IF hasOutputPath THEN JoinRoot(outputRel) ELSE <<>>,
         usedAutoOutput |-> ~hasOutput /\ hasPersona,
         excludeGlobs |-> opts.exclude
                            \o (IF hasOutputPath THEN <<outputRel>> ELSE <<>>)
                            \o (IF opts.lite THEN LiteGlobs ELSE <<>>)]

\* The options main hands to formatOutput.
FormatOptionsOf(opts, run) ==
    [format |-> FormatOf(run.format), rootDir |-> RootDir,
     hasPersona |-> run.hasPersona, persona |-> PersonaOf(run.persona),
     hasTask |-> opts.hasTask, task |-> opts.task]

\* Mutant: stdout is written to whether or not it is a terminal.
ShouldWriteStdoutAnyTerminal(opts, run, isTTY) == ~run.hasOutputPath

\* !outputPath && (!process.stdout.isTTY || opts.stdout === true)
ShouldWriteStdout(opts, run, isTTY) ==
    ~run.hasOutputPath /\ (~isTTY \/ opts.stdout)

\* One thing the run did to the world: a line on stderr, a call of the file
\* system, of scanProject or of the clipboard, a write to stdout.
Effect(op, path, note, data) ==
    [op |-> op, path |-> path, note |-> note, data |-> data]

Stderr(note) == Effect("stderr", <<>>, note, <<>>)

Running == [exited |-> FALSE, code |-> 0]
Exited(code) == [exited |-> TRUE, code |-> code]

\* Mutant: the catch block ends the process with status 0.
CatchBlockExitsZero(log) ==
    [log |-> log \o <<Stderr("Failed to generate Epistle context."),
                      Stderr("err.message")>>,
     exit |-> Exited(0)]

\* The catch block of main: spinner.fail, the message, process.exit(1).
CatchBlock(log) ==
    [log |-> log \o <<Stderr("Failed to generate Epistle context."),
                      Stderr("err.message")>>,
     exit |-> Exited(1)]

\* name.startsWith("epistle-") && name.endsWith(".md")
IsEpistleMd(name) ==
    /\ Len(name) >= Len(EpistlePrefix)
    /\ SubSeq(name, 1, Len(EpistlePrefix)) = EpistlePrefix
    /\ Len(name) >= Len(MdSuffix)
    /\ SubSeq(name, Len(name) - Len(MdSuffix) + 1, Len(name)) = MdSuffix

-----------------------------------------------------------------------------
(* Bounds and inputs of the aggregation specification *)

MaxStats == 3
MaxTokens == 2

\* Project-relative paths as fast-glob reports them: no path is a directory
\* of another one.
AggPaths == {
    <<"r">>,
    <<"a","/","x">>,
    <<"a","/","b","/","y">>,
    <<"a","/","b","/","z">>,
    <<"c","/","d","/","w">> }

StatPaths(fileTokenStats) == {fileTokenStats[i].path : i \in DOMAIN fileTokenStats}

AggIdle ==
    /\ stats = <<>>
    /\ dirMap = EmptyMap

NoRedaction == [redacted |-> <<>>, count |-> 0]

RedactIdle ==
    /\ textParts = <<>>
    /\ redactPc = "input"
    /\ redaction = NoRedaction
    /\ reRedaction = NoRedaction

NoTreeText == [direct |-> <<>>, sorted |-> <<>>]

TreeIdle ==
    /\ treeFiles = <<>>
    /\ treePermuted = <<>>
    /\ treePc = "input"
    /\ treeOut = NoTreeText
    /\ treeOutPermuted = NoTreeText

NoSetup == [gitignore |-> NoIgnoreFile, llmignore |-> NoIgnoreFile,
            excludeGlobs |-> <<>>, hasMaxFileSizeBytes |-> FALSE,
            maxFileSizeBytes |-> 0]

ScanIdle ==
    /\ scanSetup = NoSetup
    /\ diskPaths = {}
    /\ globEntries = <<>>
    /\ cursor = 0
    /\ scanned = <<>>
    /\ scanPc = "idle"
    /\ scanResult = <<>>
    /\ notFiles = {}

NoOptions == [format |-> "markdown", rootDir |-> <<>>, hasPersona |-> FALSE,
              persona |-> Undefined, hasTask |-> FALSE, task |-> <<>>]

NoRendered == [output |-> <<>>, totalTokens |-> 0, fileTokenStats |-> <<>>,
               dirTokenMap |-> EmptyMap, redactedByPath |-> EmptyMap,
               redactCalls |-> EmptyMap, encoded |-> EmptyMap, files |-> <<>>]

FormatIdle ==
    /\ fmtFiles = <<>>
    /\ fmtOptions = NoOptions
    /\ fmtPc = "input"
    /\ rendered = NoRendered

NoRaw == [has |-> FALSE, text |-> <<>>]

NoHogs == [hogMode |-> "files", hasHogDepth |-> FALSE, hogDepth |-> 0, hogEntries |-> <<>>]

HogIdle ==
    /\ hogStats = <<>>
    /\ hogRaw = NoRaw
    /\ hogPc = "input"
    /\ hogs = NoHogs

NoCliOptions ==
    [format |-> MarkdownText, hasPersona |-> FALSE, persona |-> <<>>,
     hasOutput |-> FALSE, output |-> <<>>, copy |-> FALSE, stdout |-> FALSE,
     clean |-> FALSE, lite |-> FALSE, hasTask |-> FALSE, task |-> <<>>,
     exclude |-> <<>>, hasHogDepth |-> FALSE, hogDepth |-> <<>>]

NoRun == ResolveRun(NoCliOptions)

NoDocument == [state |-> "none"]
ThrewDocument == [state |-> "threw"]

CliIdle ==
    /\ cliOpts = NoCliOptions
    /\ stdoutIsTTY = TRUE
    /\ cliDisk = {}
    /\ cliPc = "start"
    /\ cliRun = NoRun
    /\ cliDoc = NoDocument
    /\ cliLog = <<>>
    /\ cliExit = Running

AggInit == AggIdle /\ RedactIdle /\ TreeIdle /\ ScanIdle /\ FormatIdle /\ HogIdle /\ CliIdle

\* The caller builds a stat list, one stat per file.
PushStat ==
    /\ Len(stats) < MaxStats
    /\ \E p \in AggPaths \ StatPaths(stats), t \in 0..MaxTokens :
           stats' = Append(stats, [path |-> p, tokens |-> t])
    /\ dirMap' = EmptyMap
    /\ UNCHANGED <<cliVars, hogVars, formatVars, redactVars, treeVars, scanVars>>

Aggregate ==
    /\ dirMap' = aggregateDirectoryTokens(stats)
    /\ UNCHANGED <<cliVars, hogVars, formatVars, stats, redactVars, treeVars, scanVars>>

AggNext == PushStat \/ Aggregate

SpecAgg == AggInit /\ [][AggNext]_vars

\* The map has been returned: the synthetic root key is always set last.
Aggregated == <<>> \in DOMAIN dirMap

\* a is a proper prefix of b (sequences of segments).
IsProperPrefix(a, b) == Len(a) < Len(b) /\ SubSeq(b, 1, Len(a)) = a

DepthOneKeys == {k \in DOMAIN dirMap : Len(PathSegments(k)) = 1}
RootLevelStats == SelectSeq(stats, LAMBDA st : Len(PathSegments(st.path)) <= 1)
StatsBeneath(d) ==
    SelectSeq(stats, LAMBDA st : IsProperPrefix(PathSegments(d), PathSegments(st.path)))

\* The directories that are a proper segment-prefix of a positive-token file.
AncestorDirs ==
    UNION { { Join(Slice(PathSegments(stats[i].path), 0, n), "/") :
                n \in 1..(Len(PathSegments(stats[i].path)) - 1) } :
            i \in {j \in DOMAIN stats : stats[j].tokens > 0} }

\* The directories above the files of the list, and those of them with a
\* file of the list beneath that has tokens.
DirsAbove(path) ==
    {d \in {Join(SubSeq(PathSegments(path), 1, n), "/") :
                n \in 1..Len(PathSegments(path))} : d # path}
StatDirs == UNION {DirsAbove(stats[i].path) : i \in DOMAIN stats}
DirsWithTokens ==
    {d \in StatDirs :
        \E i \in DOMAIN stats : stats[i].tokens > 0 /\ d \in DirsAbove(stats[i].path)}

\* C29: for the stats of the files of one directory tree, the keys of the
\* returned map are the empty string, for an empty list too, and the
\* directories with a file beneath them, at any depth, that has tokens; a
\* directory whose files all have 0 tokens is no key, and no path of a file
\* is one.
C29_KeySet ==
    Aggregated =>
        /\ DOMAIN dirMap = {<<>>} \cup DirsWithTokens
        /\ \A d \in StatDirs \ DirsWithTokens : d \notin DOMAIN dirMap
        /\ DOMAIN dirMap \cap StatPaths(stats) = {}

\* a/b has a file with tokens, c and c/d have a file without, r is a file
\* of the root with tokens.
C29_Witness ==
    /\ Aggregated
    /\ <<"a","/","b">> \in DirsWithTokens
    /\ <<"c","/","d">> \in StatDirs \ DirsWithTokens
    /\ \E i \in DOMAIN stats : stats[i].path = <<"c","/","d","/","w">>
    /\ DOMAIN dirMap = {<<>>, <<"a">>, <<"a","/","b">>}

C29_WitnessEmpty ==
    /\ Aggregated
    /\ stats = <<>>
    /\ DOMAIN dirMap = {<<>>}

\* C1: the values of the one-segment directory keys plus the tokens of the
\* files without a directory component add up to the value under the
\* empty-string (synthetic root) key.
C1_DepthOneSumsToRoot ==
    Aggregated =>
        SumOver(DepthOneKeys, dirMap) + SumTokens(RootLevelStats) = dirMap[<<>>]

C1_Witness ==
    /\ Aggregated
    /\ Cardinality(DepthOneKeys) >= 2
    /\ SumTokens(RootLevelStats) > 0
    /\ \E i \in DOMAIN stats :
           stats[i].tokens > 0 /\ Len(PathSegments(stats[i].path)) >= 3

\* C2: every directory that is a proper segment-prefix of a positive-token
\* file is a key, and its value is the sum of the tokens of all files
\* transitively beneath it (every ancestor, not only the immediate parent).
C2_AncestorsAccumulate ==
    Aggregated =>
        \A d \in AncestorDirs :
            d \in DOMAIN dirMap /\ dirMap[d] = SumTokens(StatsBeneath(d))

C2_Witness ==
    /\ Aggregated
    /\ \E d \in AncestorDirs :
           /\ Len(PathSegments(d)) = 1
           /\ Len(StatsBeneath(d)) >= 2
           /\ \E i \in DOMAIN stats :
                  /\ stats[i].tokens > 0
                  /\ Len(PathSegments(stats[i].path)) >= 3
                  /\ IsProperPrefix(PathSegments(d), PathSegments(stats[i].path))

-----------------------------------------------------------------------------
(* Redaction specification: texts made of key-shaped pieces *)

MaxPieces == 4

\* The pieces a text is built from: key prefixes, runs long enough for each
\* quantifier, separators, and the placeholder itself.
TextPieces == {
    <<"s","k","-">>,
    Repeat("A", OpenAiKeyMin),
    <<"A","K","I","A">>,
    <<"A","I","z","a">>,
    Repeat("a", JwtSegmentMin),
    Repeat("a", JwtSegmentMin) \o <<".">>,
    <<"-">>,
    <<" ">>,
    Placeholder }

RedactInit == AggIdle /\ RedactIdle /\ TreeIdle /\ ScanIdle /\ FormatIdle /\ HogIdle /\ CliIdle

AppendPiece ==
    /\ redactPc = "input"
    /\ Len(textParts) < MaxPieces
    /\ \E piece \in TextPieces : textParts' = Append(textParts, piece)
    /\ UNCHANGED <<cliVars, hogVars, formatVars, redactPc, redaction, reRedaction, aggVars, treeVars, scanVars>>

Redact ==
    /\ redactPc = "input"
    /\ redaction' = redactSecrets(Concat(textParts))
    /\ redactPc' = "once"
    /\ UNCHANGED <<cliVars, hogVars, formatVars, textParts, reRedaction, aggVars, treeVars, scanVars>>

RedactAgain ==
    /\ redactPc = "once"
    /\ reRedaction' = redactSecrets(redaction.redacted)
    /\ redactPc' = "twice"
    /\ UNCHANGED <<cliVars, hogVars, formatVars, textParts, redaction, aggVars, treeVars, scanVars>>

RedactNext == AppendPiece \/ Redact \/ RedactAgain

SpecRedact == RedactInit /\ [][RedactNext]_vars

\* C3: redacting already-redacted text returns the same text with count 0.
C3_RedactIdempotent ==
    redactPc = "twice" =>
        reRedaction.redacted = redaction.redacted /\ reRedaction.count = 0

C3_Witness ==
    /\ redactPc = "twice"
    /\ redaction.count >= 2
    /\ redaction.redacted # Concat(textParts)

-----------------------------------------------------------------------------
(* Tree specification: file lists in any order, and a permutation of each *)

MaxTreeFiles == 3

\* Project-relative paths, in the order scanProject returns them: a
\* directory with two files, names that differ in case, and two canonically
\* equivalent names (precomposed and decomposed).
TreePaths == <<
    <<"a","/","Z">>,
    <<"a","/","z",".","t","s">>,
    <<"B">>,
    <<"b",".","t","s">>,
    <<EAcute>>,
    <<"e", CombiningAcute>> >>

TreeFile(p, kind) ==
    [path |-> p, isBinary |-> kind = "binary", isOversized |-> kind = "oversized",
     hasContent |-> kind = "text", content |-> IF kind = "text" THEN <<"x">> ELSE <<>>]

PathsOf(fileList) == {fileList[i].path : i \in DOMAIN fileList}

\* What formatOutput computes of the tree: sortedFiles, buildTree, renderTree;
\* and buildTree followed by renderTree on the list as given.
TreeTexts(fileList) ==
    [direct |-> renderTree(buildTree(fileList)),
     sorted |-> renderTree(buildTree(SortFilesByPath(fileList)))]

TreeInit == AggIdle /\ RedactIdle /\ TreeIdle /\ ScanIdle /\ FormatIdle /\ HogIdle /\ CliIdle

\* The caller's list grows by a file that sorts after the ones it holds.
AddTreeFile ==
    /\ treePc = "input"
    /\ Len(treeFiles) < MaxTreeFiles
    /\ \E k \in DOMAIN TreePaths, kind \in {"text", "binary", "oversized"} :
           /\ \A i \in DOMAIN treeFiles : IndexIn(TreePaths, treeFiles[i].path) < k
           /\ treeFiles' = Append(treeFiles, TreeFile(TreePaths[k], kind))
    /\ UNCHANGED <<cliVars, hogVars, formatVars, treePermuted, treePc, treeOut, treeOutPermuted, aggVars, redactVars, scanVars>>

RenderTrees ==
    /\ treePc = "input"
    /\ \E perm \in Permutations(DOMAIN treeFiles) :
           treePermuted' = Tuple([i \in DOMAIN treeFiles |-> treeFiles[perm[i]]])
    /\ treeOut' = TreeTexts(treeFiles)
    /\ treeOutPermuted' = TreeTexts(treePermuted')
    /\ treePc' = "rendered"
    /\ UNCHANGED <<cliVars, hogVars, formatVars, treeFiles, aggVars, redactVars, scanVars>>

TreeNext == AddTreeFile \/ RenderTrees

SpecTree == TreeInit /\ [][TreeNext]_vars

\* Reading the rendered lines back: the depth of a line, and the name on it.
BranchChars == {"U+251C", "U+2514"}
BranchIndex(line) == CHOOSE i \in 1..Len(line) : line[i] \in BranchChars
LineDepth(line) == (BranchIndex(line) - 1) \div 4
LineLabel(line) == SubSeq(line, BranchIndex(line) + 4, Len(line))
LineName(line) ==
    LET label == LineLabel(line)
        spaces == {i \in 1..Len(label) : label[i] = " "}
    IN  IF spaces = {} THEN label
        ELSE SubSeq(label, 1, (CHOOSE i \in spaces : \A j \in spaces : i <= j) - 1)

\* Lines i < j are children of the same node.
AreSiblings(lines, i, j) ==
    /\ i < j
    /\ LineDepth(lines[i]) = LineDepth(lines[j])
    /\ \A k \in (i + 1)..(j - 1) : LineDepth(lines[k]) > LineDepth(lines[i])

\* The code units (UTF-16) of the characters that occur in the paths.
CodeUnit(c) ==
    CASE c = " " -> 32
      [] c = "-" -> 45
      [] c = "." -> 46
      [] c = "/" -> 47
      [] c \in Digit -> 47 + IndexIn(DigitSeq, c)
      [] c \in Upper -> 64 + IndexIn(UpperSeq, c)
      [] c = "_" -> 95
      [] c \in Lower -> 96 + IndexIn(LowerSeq, c)
      [] c = EAcute -> 233
      [] c = CombiningAcute -> 769
CodeUnitCompare(a, b) ==
    LexCompare(Tuple([i \in 1..Len(a) |-> CodeUnit(a[i])]),
               Tuple([i \in 1..Len(b) |-> CodeUnit(b[i])]))

SiblingsOrderedBy(lines, Cmp(_, _)) ==
    \A i, j \in 1..Len(lines) :
        AreSiblings(lines, i, j) => Cmp(LineName(lines[i]), LineName(lines[j])) <= 0

\* C9 as claimed: the children of every level are in code-unit order of
\* their names, directories and files interleaved, whatever the names.
C9_CodeUnitOrder ==
    treePc = "rendered" =>
        /\ SiblingsOrderedBy(treeOut.direct, CodeUnitCompare)
        /\ SiblingsOrderedBy(treeOutPermuted.direct, CodeUnitCompare)

\* C9 as amended: the children of every level are in localeCompare order of
\* their names (collation order: case and accents only break ties),
\* directories and files interleaved, whatever the order of the input.
C9_LocaleOrder ==
    treePc = "rendered" =>
        /\ SiblingsOrderedBy(treeOut.direct, LocaleCompare)
        /\ SiblingsOrderedBy(treeOut.sorted, LocaleCompare)
        /\ SiblingsOrderedBy(treeOutPermuted.direct, LocaleCompare)
        /\ SiblingsOrderedBy(treeOutPermuted.sorted, LocaleCompare)

\* A directory and files that differ in case, given in another order than
\* the rendered one.
C9_Witness ==
    /\ treePc = "rendered"
    /\ Len(treePermuted) = 3
    /\ treePermuted[1].path = <<"B">>
    /\ treePermuted[2].path = <<"b",".","t","s">>
    /\ treePermuted[3].path = <<"a","/","z",".","t","s">>
    /\ LineName(treeOutPermuted.direct[1]) = <<"a">>
    /\ LineName(treeOutPermuted.direct[3]) = <<"B">>
    /\ LineName(treeOutPermuted.direct[4]) = <<"b",".","t","s">>

\* C10: every permutation of a list of files gives the same tree text as the
\* list itself, both from buildTree and renderTree directly and through the
\* sort of formatOutput.
C10_PermutationInvariant ==
    treePc = "rendered" => treeOut = treeOutPermuted

-----------------------------------------------------------------------------
(* Scan specification: a root directory, its ignore files and the answers *)
(* of the file system to lstat, realpath, stat, isBinaryFile and readFile  *)

MaxScanFiles == 2

\* The maxFileSizeBytes a caller passes when it passes one.
SmallMaxFileSize == 2

GitignorePath == <<".","g","i","t","i","g","n","o","r","e">>
LlmignorePath == <<".","l","l","m","i","g","n","o","r","e">>

\* The files that can be beneath the root, ignore files aside.
ScanPaths == <<
    <<"a",".","t","s">>,
    <<"d","i","s","t","/","o",".","j","s">>,
    <<"i","m","g",".","p","n","g">>,
    <<"s","r","c","/","b",".","t","s">> >>

AllScanPaths == <<GitignorePath, LlmignorePath>> \o ScanPaths

\* "# build\n *.png \n", "!img.png" and the exclude globs "a.ts" and
\* "!dist/o.js".
GitignoreText ==
    <<"#"," ","b","u","i","l","d","\n"," ","*",".","p","n","g"," ","\n">>
LlmignoreText == <<"!","i","m","g",".","p","n","g">>
ExcludeATs == <<"a",".","t","s">>
IncludeDistO == <<"!","d","i","s","t","/","o",".","j","s">>

IgnoreSetups == {
    [gitignore |-> NoIgnoreFile, llmignore |-> NoIgnoreFile, excludeGlobs |-> <<>>],
    [gitignore |-> IgnoreFile(GitignoreText), llmignore |-> NoIgnoreFile,
     excludeGlobs |-> <<>>],
    [gitignore |-> IgnoreFile(GitignoreText), llmignore |-> IgnoreFile(LlmignoreText),
     excludeGlobs |-> <<>>],
    [gitignore |-> NoIgnoreFile, llmignore |-> NoIgnoreFile,
     excludeGlobs |-> <<ExcludeATs>>],
    [gitignore |-> NoIgnoreFile, llmignore |-> NoIgnoreFile,
     excludeGlobs |-> <<IncludeDistO>>] }

Reverse(seq) == Tuple([i \in 1..Len(seq) |-> seq[Len(seq) + 1 - i]])

IsIgnoreFilePath(relative) == relative \in {GitignorePath, LlmignorePath}

\* Documents of earlier runs in the root, and the files that are regular
\* text files whatever the run: the ignore files, package.json, the documents.
PriorArtifacts == {ContextMd, EpistleSecMd}
IsPlainTextPath(relative) ==
    IsIgnoreFilePath(relative) \/ relative = PackageJsonPath \/ relative \in PriorArtifacts

\* What readFile returns for a path: the text of an ignore file, or some text.
FileData(setup, relative) ==
    IF relative = GitignorePath THEN {setup.gitignore.text}
    ELSE IF relative = LlmignorePath THEN {setup.llmignore.text}
    ELSE IF relative = PackageJsonPath THEN {PackageJsonText}
    ELSE IF relative \in PriorArtifacts THEN {<<"x","y">>}
    ELSE {<<>>, <<"x","y">>}

\* What stat reports as the size: the limit, or one byte more.
FileSizes(setup, relative) ==
    IF relative = GitignorePath THEN {Len(setup.gitignore.text)}
    ELSE IF relative = LlmignorePath THEN {Len(setup.llmignore.text)}
    ELSE IF relative = PackageJsonPath THEN {Len(PackageJsonText)}
    ELSE IF relative \in PriorArtifacts THEN {Len(<<"x","y">>)}
    ELSE {EffectiveMaxFileSize(setup), EffectiveMaxFileSize(setup) + 1}

\* What lstat and isBinaryFile report: an ignore file, package.json or a
\* document is a regular text file; any other entry may be a symlink, and
\* may be binary.
MayBeSymlink(relative) == IF IsPlainTextPath(relative) THEN {FALSE} ELSE BOOLEAN
MayBeBinary(relative) == IF IsPlainTextPath(relative) THEN {FALSE} ELSE BOOLEAN

\* The real path of a symlink's target.
RealPath(relative) == <<"/","t","/">> \o relative

ScanInit == AggIdle /\ RedactIdle /\ TreeIdle /\ ScanIdle /\ FormatIdle /\ HogIdle /\ CliIdle

\* The call: options, buildIgnore, and the fast-glob walk, which leaves out
\* what its ignore option matches and reports the rest in directory order.
ScanStart ==
    /\ scanPc = "idle"
    /\ \E ig \in IgnoreSetups, hasMax \in BOOLEAN, reversed \in BOOLEAN,
          chosen \in SUBSET {ScanPaths[i] : i \in DOMAIN ScanPaths} :
           LET disk == chosen
                   \cup (IF ig.gitignore.readable THEN {GitignorePath} ELSE {})
                   \cup (IF ig.llmignore.readable THEN {LlmignorePath} ELSE {})
               found == SelectSeq(AllScanPaths,
                            LAMBDA q : q \in disk /\ ~GlobIgnored(q))
           IN  /\ Cardinality(chosen) <= MaxScanFiles
               /\ scanSetup' = [gitignore |-> ig.gitignore,
                                llmignore |-> ig.llmignore,
                                excludeGlobs |-> ig.excludeGlobs,
                                hasMaxFileSizeBytes |-> hasMax,
                                maxFileSizeBytes |->
                                    IF hasMax THEN SmallMaxFileSize ELSE 0]
               /\ diskPaths' = disk
               /\ globEntries' = IF reversed THEN Reverse(found) ELSE found
    /\ cursor' = 1
    /\ scanned' = <<>>
    /\ scanPc' = "walking"
    /\ notFiles' = {}
    /\ UNCHANGED <<cliVars, hogVars, formatVars, scanResult, aggVars, redactVars, treeVars>>

AtEntry == scanPc = "walking" /\ cursor <= Len(globEntries)

\* if (ig.ignores(relative)) continue;
ScanSkipIgnored ==
    /\ AtEntry
    /\ Ignores(buildIgnore(scanSetup), globEntries[cursor])
    /\ cursor' = cursor + 1
    /\ UNCHANGED <<cliVars, notFiles, hogVars, formatVars, scanSetup, diskPaths, globEntries, scanned, scanPc, scanResult,
                   aggVars, redactVars, treeVars>>

\* lstat reports neither a file nor a symlink, or the entry is a symlink that
\* is broken or leads to something that is not a file: continue.
ScanSkipEntry ==
    /\ AtEntry
    /\ ~Ignores(buildIgnore(scanSetup), globEntries[cursor])
    /\ cursor' = cursor + 1
    /\ notFiles' = notFiles \cup {globEntries[cursor]}
    /\ UNCHANGED <<cliVars, hogVars, formatVars, scanSetup, diskPaths, globEntries, scanned, scanPc, scanResult,
                   aggVars, redactVars, treeVars>>

\* The entry is a file, or a symlink to one: classify it and push it.
ScanPushFile ==
    /\ AtEntry
    /\ ~Ignores(buildIgnore(scanSetup), globEntries[cursor])
    /\ \E viaSymlink \in MayBeSymlink(globEntries[cursor]),
          binary \in MayBeBinary(globEntries[cursor]),
          sizeBytes \in FileSizes(scanSetup, globEntries[cursor]),
          data \in FileData(scanSetup, globEntries[cursor]) :
           LET relative == globEntries[cursor]
               effectivePath == IF viaSymlink THEN RealPath(relative)
                                ELSE JoinRoot(relative)
           IN  scanned' = Append(scanned,
                   Classify(relative, effectivePath, sizeBytes, binary, data,
                            EffectiveMaxFileSize(scanSetup)))
    /\ cursor' = cursor + 1
    /\ UNCHANGED <<cliVars, notFiles, hogVars, formatVars, scanSetup, diskPaths, globEntries, scanPc, scanResult,
                   aggVars, redactVars, treeVars>>

\* Mutant: the failure ends the walk and the list built so far is returned.
ScanRejectResolves ==
    /\ AtEntry
    /\ ~Ignores(buildIgnore(scanSetup), globEntries[cursor])
    /\ scanPc' = "returned"
    /\ scanResult' = SortFilesByPath(scanned)
    /\ UNCHANGED <<cliVars, notFiles, hogVars, formatVars, scanSetup, diskPaths, globEntries, cursor, scanned,
                   aggVars, redactVars, treeVars>>

\* lstat, isBinaryFile or readFile throws: the promise rejects and the list
\* built so far is lost.
ScanReject ==
    /\ AtEntry
    /\ ~Ignores(buildIgnore(scanSetup), globEntries[cursor])
    /\ scanPc' = "rejected"
    /\ scanned' = <<>>
    /\ UNCHANGED <<cliVars, notFiles, hogVars, formatVars, scanSetup, diskPaths, globEntries, cursor, scanResult,
                   aggVars, redactVars, treeVars>>

\* return files.sort((a, b) => a.path.localeCompare(b.path));
ScanReturn ==
    /\ scanPc = "walking"
    /\ cursor > Len(globEntries)
    /\ scanResult' = SortFilesByPath(scanned)
    /\ scanPc' = "returned"
    /\ UNCHANGED <<cliVars, notFiles, hogVars, formatVars, scanSetup, diskPaths, globEntries, cursor, scanned,
                   aggVars, redactVars, treeVars>>

ScanNext ==
    \/ ScanStart
    \/ ScanSkipIgnored
    \/ ScanSkipEntry
    \/ ScanPushFile
    \/ ScanReject
    \/ ScanReturn

SpecScan == ScanInit /\ [][ScanNext]_vars

ReturnedFiles == {scanResult[i] : i \in DOMAIN scanResult}

\* C6: a returned non-binary file of exactly maxFileSizeBytes is not
\* oversized and carries its content; one byte more and it is oversized and
\* carries none.
C6_SizeBoundary ==
    scanPc = "returned" =>
        \A f \in ReturnedFiles :
            ~f.isBinary =>
                /\ f.sizeBytes = EffectiveMaxFileSize(scanSetup)
                       => ~f.isOversized /\ f.hasContent
                /\ f.sizeBytes >= EffectiveMaxFileSize(scanSetup) + 1
                       => f.isOversized /\ ~f.hasContent

C6_Witness ==
    /\ scanPc = "returned"
    /\ \E f, g \in ReturnedFiles :
           /\ ~f.isBinary /\ f.sizeBytes = EffectiveMaxFileSize(scanSetup)
           /\ f.hasContent /\ f.content # <<>>
           /\ ~g.isBinary /\ g.sizeBytes = EffectiveMaxFileSize(scanSetup) + 1
           /\ g.isOversized

\* C7: a returned file carries content exactly when it is neither binary nor
\* oversized, and it is never both binary and oversized.
C7_ContentIffInlineable ==
    scanPc = "returned" =>
        \A f \in ReturnedFiles :
            /\ f.hasContent <=> (~f.isBinary /\ ~f.isOversized)
            /\ ~(f.isBinary /\ f.isOversized)

C7_Witness ==
    /\ scanPc = "returned"
    /\ \E f, g \in ReturnedFiles :
           /\ f.isBinary /\ f.sizeBytes > EffectiveMaxFileSize(scanSetup)
           /\ ~f.hasContent
           /\ g.hasContent /\ ~g.isBinary /\ ~g.isOversized

\* The ignore patterns of the call that match the path itself.
MatchingRules(path) ==
    {i \in DOMAIN buildIgnore(scanSetup) :
        RuleMatches(buildIgnore(scanSetup)[i], PathSegments(path), FALSE)}

\* The last pattern that matches the path is a negation, and the built-in
\* set or an earlier pattern excludes the path.
NegatedLast(path) ==
    LET rules == buildIgnore(scanSetup)
        hits == MatchingRules(path)
        last == CHOOSE i \in hits : \A j \in hits : j <= i
    IN  /\ hits # {}
        /\ rules[last].negative
        /\ \/ GlobIgnored(path)
           \/ \E i \in hits : i < last /\ ~rules[i].negative

ReturnedPaths == {scanResult[i].path : i \in DOMAIN scanResult}

\* C14: a path on disk that an earlier source excludes (the built-in set
\* included) and a later pattern negates is in the scan result, unless it is
\* no file.
C14_NegationWins ==
    scanPc = "returned" =>
        \A path \in diskPaths :
            NegatedLast(path) => path \in ReturnedPaths \cup notFiles

\* C14 without the built-in set: a path an ignore file or an exclude glob
\* excludes and a later pattern negates is in the scan result.
C14_NegationWinsOverPatterns ==
    scanPc = "returned" =>
        \A path \in diskPaths :
            (NegatedLast(path) /\ ~GlobIgnored(path))
                => path \in ReturnedPaths \cup notFiles

C14_Witness ==
    /\ scanPc = "returned"
    /\ \E path \in diskPaths :
           NegatedLast(path) /\ ~GlobIgnored(path) /\ path \in ReturnedPaths

-----------------------------------------------------------------------------
(* formatOutput: specification and claims *)

MaxFormatFiles == 2

FormatPaths == {
    PackageJsonPath,
    <<"b",".","t","s">>,
    <<"a","/","z",".","t","s">> }

\* Contents: text with characters xml escapes, text with one key, text with
\* two keys written one after the other, and a package.json.
PlainText == <<"x","<","1">>
SecretText == <<"k","=","s","k","-">> \o Repeat("A", OpenAiKeyMin) \o <<"&">>
AdjacentKeysText ==
    <<"s","k","-">> \o Repeat("A", OpenAiKeyMin)
    \o <<"s","k","-">> \o Repeat("B", OpenAiKeyMin)

Variant(isBinary, isOversized, hasContent, content) ==
    [isBinary |-> isBinary, isOversized |-> isOversized,
     hasContent |-> hasContent, content |-> content]

\* What a ScannedFile can carry besides its path: what scanProject produces,
\* and records of other callers with flags and content together.
FormatVariants(path) ==
    IF path = PackageJsonPath
    THEN {Variant(FALSE, FALSE, TRUE, PackageJsonText),
          Variant(FALSE, FALSE, TRUE, <<>>),
          Variant(FALSE, TRUE, FALSE, <<>>),
          Variant(TRUE, FALSE, TRUE, PackageJsonText)}
    ELSE {Variant(FALSE, FALSE, TRUE, PlainText),
          Variant(FALSE, FALSE, TRUE, SecretText),
          Variant(FALSE, FALSE, TRUE, AdjacentKeysText),
          Variant(FALSE, FALSE, TRUE, <<>>),
          Variant(FALSE, FALSE, FALSE, <<>>),
          Variant(TRUE, FALSE, FALSE, <<>>),
          Variant(FALSE, TRUE, FALSE, <<>>),
          Variant(TRUE, FALSE, TRUE, SecretText),
          Variant(FALSE, TRUE, TRUE, PlainText),
          Variant(TRUE, TRUE, TRUE, PlainText)}

FormatFile(path, variant) ==
    [path |-> path, isBinary |-> variant.isBinary, isOversized |-> variant.isOversized,
     hasContent |-> variant.hasContent, content |-> variant.content]

\* Both formats, with and without a persona, with no task, an empty one,
\* blank ones (spaces; space, line feed and tab), and ones with text, bare
\* and with white space around it.
FormatOptionSets ==
    {[format |-> o[1], rootDir |-> RootDir, hasPersona |-> o[2] # Undefined,
      persona |-> o[2], hasTask |-> o[3] # Undefined,
      task |-> IF o[3] = Undefined THEN <<>> ELSE o[3]] :
        o \in {<<"markdown", Undefined, Undefined>>,
               <<"xml", Undefined, Undefined>>,
               <<"xml", "architect", Undefined>>,
               <<"markdown", "security", <<" ", " ">> >>,
               <<"xml", "refactor", <<"F","i","x">> >>,
               <<"markdown", Undefined, <<"F","i","x">> >>,
               <<"markdown", Undefined, <<>> >>,
               <<"xml", Undefined, <<" ","\n","\t">> >>,
               <<"xml", "security", <<" ","F","i","x","\n">> >>,
               <<"markdown", "architect", <<"\t","<","&"," ">> >>}}

FormatInit == AggIdle /\ RedactIdle /\ TreeIdle /\ ScanIdle /\ FormatIdle /\ HogIdle /\ CliIdle

\* The caller builds the files argument, in any order.
AddFormatFile ==
    /\ fmtPc = "input"
    /\ Len(fmtFiles) < MaxFormatFiles
    /\ \E path \in FormatPaths \ PathsOf(fmtFiles) :
           \E variant \in FormatVariants(path) :
               fmtFiles' = Append(fmtFiles, FormatFile(path, variant))
    /\ UNCHANGED <<cliVars, hogVars, fmtOptions, fmtPc, rendered, aggVars, redactVars, treeVars, scanVars>>

\* formatOutput(files, options): what it returns, and the caller's array
\* as the call leaves it.
FormatOutput ==
    /\ fmtPc = "input"
    /\ \E options \in FormatOptionSets :
           /\ fmtOptions' = options
           /\ \E result \in {formatOutput(fmtFiles, options)} :
                  /\ rendered' = result
                  /\ fmtFiles' = result.files
    /\ fmtPc' = "done"
    /\ UNCHANGED <<cliVars, hogVars, aggVars, redactVars, treeVars, scanVars>>

FormatNext ==
    \/ AddFormatFile
    \/ FormatOutput

SpecFormat == FormatInit /\ [][FormatNext]_vars

FormatInputs == {fmtFiles[i] : i \in DOMAIN fmtFiles}

\* Inlineable: content present and non-empty, neither binary nor oversized.
Inlineable(file) == HasText(file) /\ ~file.isBinary /\ ~file.isOversized

\* A path as a section of the chosen format shows it.
PathShown(path) == IF fmtOptions.format = "xml" THEN xmlEscape(path) ELSE path

\* A text as a section of the chosen format shows it.
TextShown(text) == IF fmtOptions.format = "xml" THEN xmlEscape(text) ELSE text

IsSectionHead(part) == part.kind \in {"heading", "xmlFile"}

SectionHeads == SelectSeq(rendered.output, IsSectionHead)

HeadPath(part) == IF part.kind = "xmlFile" THEN part.attrs ELSE part.path

\* The positions of the document where the section of a file starts.
SectionStarts(file) ==
    {i \in DOMAIN rendered.output :
        /\ IsSectionHead(rendered.output[i])
        /\ HeadPath(rendered.output[i]) = PathShown(file.path)}

\* The parts of the section that starts at position i, its head left out:
\* up to the next section, the task block or the closing tag.
SectionBody(i) ==
    LET out == rendered.output
        stops == {j \in (i + 1)..Len(out) :
                     \/ IsSectionHead(out[j])
                     \/ out[j] = Lit("## User Task / Instructions")
                     \/ out[j] = Lit("</epistle>")}
        stop == IF stops = {} THEN Len(out) + 1
                ELSE CHOOSE j \in stops : \A k \in stops : j <= k
    IN  SubSeq(out, i + 1, stop - 1)

\* The texts the section that starts at position i shows as content.
ContentTexts(i) ==
    IF rendered.output[i].kind = "xmlFile" THEN {rendered.output[i].body}
    ELSE {SectionBody(i)[n].text :
             n \in {m \in DOMAIN SectionBody(i) : SectionBody(i)[m].kind = "content"}}

\* The texts the document shows as the content of a file.
EmittedTexts(file) == UNION {ContentTexts(i) : i \in SectionStarts(file)}

\* The lines of the metadata block.
MetadataLines ==
    LET at == {i \in DOMAIN rendered.output : rendered.output[i].kind = "header"}
    IN  IF at = {} THEN <<>> ELSE rendered.output[CHOOSE i \in at : TRUE].lines

\* A key starts at position i of the text: sk- and 16 alphanumerics.
KeyAt(text, i) ==
    /\ i + 2 + OpenAiKeyMin <= Len(text)
    /\ text[i] = "s" /\ text[i + 1] = "k" /\ text[i + 2] = "-"
    /\ \A k \in 1..OpenAiKeyMin : text[i + 2 + k] \in Alnum

HasKeyShape(text) == \E i \in 1..Len(text) : KeyAt(text, i)

\* Position j of the text lies in a key, taken with every alphanumeric that
\* follows its 16.
InKey(text, j) ==
    \E i \in 1..j : KeyAt(text, i) /\ j <= i + 2 + RunLen(text, i + 3, Alnum)

\* The text without the characters at the positions in drop.
Without(text, drop) ==
    Concat(Tuple([j \in 1..Len(text) |-> IF j \in drop THEN <<>> ELSE <<text[j]>>]))

OutsideKeys(text) == Without(text, {j \in 1..Len(text) : InKey(text, j)})

OutsidePlaceholders(text) ==
    Without(text, {j \in 1..Len(text) :
        \E i \in 1..j : StartsWithAt(text, i, Placeholder) /\ j < i + Len(Placeholder)})

ContainsPlaceholder(text) == \E i \in 1..Len(text) : StartsWithAt(text, i, Placeholder)

KeyFiles == {f \in FormatInputs : Inlineable(f) /\ HasKeyShape(f.content)}

\* C4, first part as stated: in the section of an inlineable file with keys
\* in its content, every key has given way to the placeholder, so that
\* besides placeholders the section shows exactly the text outside the keys.
C4_KeysReplacedInSection ==
    fmtPc = "done" =>
        \A f \in KeyFiles :
            /\ EmittedTexts(f) # {}
            /\ \A text \in EmittedTexts(f) :
                   /\ ContainsPlaceholder(text)
                   /\ OutsidePlaceholders(text) = TextShown(OutsideKeys(f.content))

\* C4, the rest: no text of the key form remains in such a section, and the
\* metadata block reports a redaction count of at least 1, not "No secrets".
C4_NoKeyShapeAndCounted ==
    fmtPc = "done" =>
        \A f \in KeyFiles :
            /\ EmittedTexts(f) # {}
            /\ \A text \in EmittedTexts(f) :
                   ContainsPlaceholder(text) /\ ~HasKeyShape(text)
            /\ \E i \in DOMAIN MetadataLines :
                   MetadataLines[i].kind = "safetyRedacted" /\ MetadataLines[i].count >= 1
            /\ \A i \in DOMAIN MetadataLines : MetadataLines[i].kind # "safetyNone"

C4_Witness ==
    /\ fmtPc = "done"
    /\ fmtOptions.format = "xml"
    /\ \E f \in KeyFiles : f.content = SecretText

StatsOf(file) ==
    {rendered.fileTokenStats[i] :
        i \in {j \in DOMAIN rendered.fileTokenStats :
                  rendered.fileTokenStats[j].path = file.path}}

\* C5: for every inlineable file, the tokenizer was handed the overlay text
\* of the file, its section shows that text, its stat is the length of the
\* encoding of that text, a key in the content is not in that text, and
\* redactSecrets was called once for it.
C5_TokensOnEmittedText ==
    fmtPc = "done" =>
        \A f \in FormatInputs :
            Inlineable(f) =>
                /\ f.path \in DOMAIN rendered.encoded
                /\ f.path \in DOMAIN rendered.redactedByPath
                /\ rendered.encoded[f.path] = rendered.redactedByPath[f.path]
                /\ EmittedTexts(f) = {TextShown(rendered.encoded[f.path])}
                /\ StatsOf(f) = {[path |-> f.path,
                                  tokens |-> EncodeLength(rendered.encoded[f.path])]}
                /\ HasKeyShape(f.content) => rendered.encoded[f.path] # f.content
                /\ f.path \in DOMAIN rendered.redactCalls
                /\ rendered.redactCalls[f.path] = 1

C5_Witness ==
    /\ fmtPc = "done"
    /\ fmtOptions.format = "markdown"
    /\ \E f \in KeyFiles, g \in FormatInputs :
           /\ EncodeLength(f.content) # EncodeLength(rendered.encoded[f.path])
           /\ g.isBinary /\ HasText(g)

\* The note the claim gives a file that is not inlined.
ExpectedNote(file) ==
    CASE file.isBinary -> BinaryNote
      [] ~file.isBinary /\ file.isOversized -> OversizedNote
      [] OTHER -> EmptyNote

\* C8: one section per input file, in path order; a file that is binary,
\* oversized or without content has its note as its whole section, 0 tokens,
\* no table-of-contents entry, and was neither redacted nor tokenized.
C8_OneSectionPerFile ==
    fmtPc = "done" =>
        /\ Len(SectionHeads) = Len(fmtFiles)
        /\ \A f \in FormatInputs : Cardinality(SectionStarts(f)) = 1
        /\ \A f, g \in FormatInputs :
               \A i \in SectionStarts(f), j \in SectionStarts(g) :
                   i < j => LocaleCompare(f.path, g.path) <= 0
        /\ \A f \in FormatInputs :
               ~Inlineable(f) =>
                   /\ \A i \in SectionStarts(f) :
                          IF rendered.output[i].kind = "xmlFile"
                          THEN rendered.output[i].body = xmlEscape(ExpectedNote(f))
                          ELSE SectionBody(i) =
                                   <<Lit(""), [kind |-> "note", text |-> ExpectedNote(f)],
                                     Lit("")>>
                   /\ EmittedTexts(f) \subseteq {xmlEscape(ExpectedNote(f))}
                   /\ StatsOf(f) = {[path |-> f.path, tokens |-> 0]}
                   /\ \A i \in DOMAIN rendered.output :
                          rendered.output[i].kind = "toc"
                              => rendered.output[i].path # f.path
                   /\ f.path \notin DOMAIN rendered.redactedByPath
                   /\ f.path \notin DOMAIN rendered.encoded

C8_Witness ==
    /\ fmtPc = "done"
    /\ fmtOptions.format = "markdown"
    /\ \E f, g \in FormatInputs :
           /\ f.isBinary /\ f.isOversized /\ HasText(f)
           /\ Inlineable(g)
           /\ LocaleCompare(g.path, f.path) < 0
           /\ fmtFiles[1] = f

\* The positions of the document with parts of one kind.
PositionsOf(kind) ==
    {i \in DOMAIN rendered.output : rendered.output[i].kind = kind}

SectionPositions ==
    {i \in DOMAIN rendered.output : IsSectionHead(rendered.output[i])}

\* C18: with a task that is not blank, the task block comes after the last
\* file section, in both formats.
C18_TaskBlockTrails ==
    (fmtPc = "done" /\ HasTask(fmtOptions)) =>
        /\ PositionsOf("task") # {}
        /\ \A t \in PositionsOf("task") : \A s \in SectionPositions : s < t

\* C18, markdown only: the task block is there once, after every section and
\* with nothing but its closing fence behind it; the metadata block has the
\* marker. Without a task (none, or a blank one) there is no block and no marker.
C18_TaskBlockTrailsInMarkdown ==
    (fmtPc = "done" /\ fmtOptions.format = "markdown") =>
        IF HasTask(fmtOptions)
        THEN /\ Cardinality(PositionsOf("task")) = 1
             /\ \A t \in PositionsOf("task") :
                    /\ \A s \in SectionPositions : s < t
                    /\ rendered.output[t].text = fmtOptions.task
                    /\ SubSeq(rendered.output, t + 1, Len(rendered.output))
                           = <<Lit(CodeFence), Lit("")>>
             /\ \E n \in DOMAIN MetadataLines : MetadataLines[n].kind = "taskStatus"
        ELSE /\ PositionsOf("task") = {}
             /\ \A n \in DOMAIN MetadataLines : MetadataLines[n].kind # "taskStatus"

C18_Witness ==
    /\ fmtPc = "done"
    /\ fmtOptions.format = "markdown"
    /\ HasTask(fmtOptions)
    /\ Len(fmtFiles) = MaxFormatFiles

\* The numbers the metadata block shows in its lines of one kind.
MetadataCounts(kind) ==
    {MetadataLines[n].count :
        n \in {k \in DOMAIN MetadataLines : MetadataLines[k].kind = kind}}

\* C30: fileTokenStats has one entry for every input file, in the order of
\* the paths; totalTokens is the sum of the tokens of the entries, the value
\* of dirTokenMap under the empty string, and the number of the 'Total
\* Tokens' line; the 'Total Files' line has the number of input files, those
\* that are binary or oversized counted.
C30_TotalsAgree ==
    fmtPc = "done" =>
        /\ Len(rendered.fileTokenStats) = Len(fmtFiles)
        /\ StatPaths(rendered.fileTokenStats) = PathsOf(fmtFiles)
        /\ \A i, j \in DOMAIN rendered.fileTokenStats :
               i < j => LocaleCompare(rendered.fileTokenStats[i].path,
                                      rendered.fileTokenStats[j].path) <= 0
        /\ rendered.totalTokens = SumTokens(rendered.fileTokenStats)
        /\ rendered.totalTokens = rendered.dirTokenMap[<<>>]
        /\ MetadataCounts("totalTokens") = {rendered.totalTokens}
        /\ MetadataCounts("totalFiles") = {Len(fmtFiles)}

\* Two files given against the order of their paths, one with tokens and one
\* that is binary or oversized.
C30_Witness ==
    /\ fmtPc = "done"
    /\ Len(fmtFiles) = 2
    /\ LocaleCompare(fmtFiles[1].path, fmtFiles[2].path) > 0
    /\ \E i \in DOMAIN fmtFiles : fmtFiles[i].isBinary \/ fmtFiles[i].isOversized
    /\ rendered.totalTokens > 0
    /\ \E i \in DOMAIN rendered.fileTokenStats : rendered.fileTokenStats[i].tokens = 0

\* The task has a character that is not white space.
TaskHasInk ==
    /\ fmtOptions.hasTask
    /\ \E i \in DOMAIN fmtOptions.task : fmtOptions.task[i] \notin WhiteSpace

TaskMarkerShown ==
    \E i \in PositionsOf("header") :
        \E n \in DOMAIN rendered.output[i].lines :
            rendered.output[i].lines[n].kind = "taskStatus"

\* C24: in both formats the metadata shows the marker 'Task Status: Pending
\* (See end of file)' exactly when the document has a task block, and it has
\* one exactly when the task has a character that is not white space; the
\* block is there once and holds the task text as it was given.
C24_TaskMarkerIffBlock ==
    fmtPc = "done" =>
        /\ TaskMarkerShown <=> PositionsOf("task") # {}
        /\ PositionsOf("task") # {} <=> TaskHasInk
        /\ Cardinality(PositionsOf("task")) <= 1
        /\ \A t \in PositionsOf("task") : rendered.output[t].text = fmtOptions.task

\* A task with white space around its text, in xml.
C24_Witness ==
    /\ fmtPc = "done"
    /\ fmtOptions.format = "xml"
    /\ TaskHasInk
    /\ Trim(fmtOptions.task) # fmtOptions.task
    /\ TaskMarkerShown
    /\ \E t \in PositionsOf("task") : rendered.output[t].text = fmtOptions.task

\* A task of white space only: no marker, no block.
C24_WitnessBlank ==
    /\ fmtPc = "done"
    /\ fmtOptions.hasTask
    /\ \E i \in DOMAIN fmtOptions.task : fmtOptions.task[i] = "\n"
    /\ ~TaskHasInk
    /\ ~TaskMarkerShown

C24_WitnessEmpty ==
    /\ fmtPc = "done"
    /\ fmtOptions.hasTask
    /\ fmtOptions.task = <<>>
    /\ PositionsOf("task") = {}

\* The positions of the document that show the text of a persona.
PersonaPositions ==
    {i \in PositionsOf("header") :
        \E n \in DOMAIN rendered.output[i].lines :
            rendered.output[i].lines[n].kind = "persona"}

\* C19: with a persona its text comes before the directory tree, in both
\* formats; without one no persona text is in the document.
C19_PersonaBeforeTree ==
    fmtPc = "done" =>
        IF fmtOptions.hasPersona
        THEN /\ PersonaPositions # {}
             /\ \A p \in PersonaPositions : \A t \in PositionsOf("tree") : p < t
        ELSE PersonaPositions = {}

\* C19, as the code has it: with a persona, the text of that persona is the
\* first line of the metadata block, once, and the block follows the directory
\* tree in both formats; without one no persona text is in the document.
C19_PersonaHeadsMetadata ==
    fmtPc = "done" =>
        /\ Cardinality(PositionsOf("header")) = 1
        /\ \A h \in PositionsOf("header") : \A t \in PositionsOf("tree") : t < h
        /\ IF fmtOptions.hasPersona
           THEN /\ MetadataLines[1] =
                       [kind |-> "persona", text |-> getPersonaHeader(fmtOptions.persona)]
                /\ \A n \in 2..Len(MetadataLines) : MetadataLines[n].kind # "persona"
                /\ \A other \in {"architect", "security", "refactor"} \ {fmtOptions.persona} :
                       getPersonaHeader(other) # MetadataLines[1].text
           ELSE PersonaPositions = {}

C19_Witness ==
    /\ fmtPc = "done"
    /\ fmtOptions.hasPersona
    /\ fmtOptions.format = "xml"
    /\ PositionsOf("tree") # {}
    /\ fmtFiles # <<>>
    /\ Len(MetadataLines) > 1

C19_WitnessMarkdown ==
    /\ fmtPc = "done"
    /\ fmtOptions.hasPersona
    /\ fmtOptions.format = "markdown"
    /\ PositionsOf("tree") # {}

\* The entries of the table of contents, in document order.
TocEntries == SelectSeq(rendered.output, LAMBDA part : part.kind = "toc")

\* C20: in markdown the table of contents has one entry per inlineable file,
\* in path order, none for another file, and the anchor of an entry is the
\* anchor in the heading of the section of the same file.
C20_TocMatchesHeadings ==
    (fmtPc = "done" /\ fmtOptions.format = "markdown") =>
        /\ \A f \in FormatInputs :
               Cardinality({n \in DOMAIN TocEntries : TocEntries[n].path = f.path})
                   = IF Inlineable(f) THEN 1 ELSE 0
        /\ \A n \in DOMAIN TocEntries :
               /\ TocEntries[n].path \in {f.path : f \in FormatInputs}
               /\ \E i \in PositionsOf("heading") :
                      rendered.output[i].path = TocEntries[n].path
               /\ \A i \in PositionsOf("heading") :
                      rendered.output[i].path = TocEntries[n].path
                          => rendered.output[i].slug = TocEntries[n].slug
               /\ TocEntries[n].slug = slugifyHeading(TocEntries[n].path)
        /\ \A m, n \in DOMAIN TocEntries :
               m < n => LocaleCompare(TocEntries[m].path, TocEntries[n].path) <= 0
        /\ \A i \in PositionsOf("toc") :
               /\ \A h \in PositionsOf("header") \cup SectionPositions : i < h
               /\ \E c \in 1..(i - 1) :
                      rendered.output[c] = Lit("## Table of Contents")

C20_Witness ==
    /\ fmtPc = "done"
    /\ fmtOptions.format = "markdown"
    /\ Len(TocEntries) = 2
    /\ LocaleCompare(fmtFiles[2].path, fmtFiles[1].path) < 0
    /\ TocEntries[1].slug # TocEntries[1].path

C20_WitnessOmitted ==
    /\ fmtPc = "done"
    /\ fmtOptions.format = "markdown"
    /\ Len(TocEntries) = 1
    /\ \E f \in FormatInputs : HasText(f) /\ f.isOversized

\* C22: the call leaves the caller's array as it was, element by element
\* and field by field (the content is still the text before redaction); what
\* was redacted is in the overlay of the call only.
C22_InputUnchanged ==
    [][(fmtPc = "input" /\ fmtPc' = "done") =>
           /\ fmtFiles' = fmtFiles
           /\ rendered'.files = fmtFiles
           /\ \A i \in DOMAIN fmtFiles :
                  (Inlineable(fmtFiles[i]) /\ HasKeyShape(fmtFiles[i].content)) =>
                      /\ fmtFiles'[i].content = fmtFiles[i].content
                      /\ HasKeyShape(fmtFiles'[i].content)
                      /\ rendered'.redactedByPath[fmtFiles[i].path] # fmtFiles[i].content]_vars

\* After a call on two files given against the path order, one of them with
\* a key: the array is still in the caller's order and holds the key.
C22_Witness ==
    /\ fmtPc = "done"
    /\ Len(fmtFiles) = 2
    /\ fmtFiles # SortFilesByPath(fmtFiles)
    /\ PathsOf(fmtFiles) = {rendered.fileTokenStats[i].path : i \in DOMAIN rendered.fileTokenStats}
    /\ \E i \in DOMAIN fmtFiles :
           /\ HasKeyShape(fmtFiles[i].content)
           /\ fmtFiles[i].path \in DOMAIN rendered.redactedByPath
           /\ ~HasKeyShape(rendered.redactedByPath[fmtFiles[i].path])

-----------------------------------------------------------------------------
(* formatOutput on files whose paths differ in case and punctuation only: *)
(* specification and claim                                               *)

MaxSlugFiles == 2

\* a/b.ts, ab.ts, a-b.ts and A/b.ts have the letters a, b, t, s in this
\* order; a/c.ts and b.ts have others.
SlugPaths == {<<"a","/","b",".","t","s">>, <<"a","b",".","t","s">>, <<"a","-","b",".","t","s">>, <<"A","/","b",".","t","s">>, <<"a","/","c",".","t","s">>, <<"b",".","t","s">>}

SlugInit == AggIdle /\ RedactIdle /\ TreeIdle /\ ScanIdle /\ FormatIdle /\ HogIdle /\ CliIdle

\* The caller adds a file to the list: one with text, or one without content.
SlugAddFile ==
    /\ fmtPc = "input"
    /\ Len(fmtFiles) < MaxSlugFiles
    /\ \E path \in SlugPaths \ PathsOf(fmtFiles), hasContent \in BOOLEAN :
           fmtFiles' = Append(fmtFiles,
               FormatFile(path, Variant(FALSE, FALSE, hasContent,
                                        IF hasContent THEN PlainText ELSE <<>>)))
    /\ UNCHANGED <<cliVars, hogVars, fmtOptions, fmtPc, rendered, aggVars, redactVars, treeVars, scanVars>>

SlugNext ==
    \/ SlugAddFile
    \/ FormatOutput

SpecSlug == SlugInit /\ [][SlugNext]_vars

\* The headings and the entries of the table of contents of the document.
Headings == {rendered.output[i] : i \in PositionsOf("heading")}
TocLinks == {rendered.output[i] : i \in PositionsOf("toc")}

\* The letters and digits of a path, capital letters as small ones.
RECURSIVE LettersAndDigits(_)
LettersAndDigits(path) ==
    IF path = <<>> THEN <<>>
    ELSE LET c == Head(path)
             kept == IF c \in Digit \/ c \in Lower THEN <<c>>
                     ELSE IF c \in Upper
                     THEN <<CHOOSE l \in Lower : ToLowerCase(<<l>>) = ToLowerCase(<<c>>)>>
                     ELSE <<>>
         IN  kept \o LettersAndDigits(Tail(path))

C27_WitnessDistinct ==
    /\ fmtPc = "done"
    /\ fmtOptions.format = "markdown"
    /\ PathsOf(fmtFiles) = {<<"a","/","b",".","t","s">>, <<"a","/","c",".","t","s">>}
    /\ Cardinality({h.slug : h \in Headings}) = 2

\* Paths that differ in letter case only.
C27_WitnessCase ==
    /\ fmtPc = "done"
    /\ fmtOptions.format = "markdown"
    /\ PathsOf(fmtFiles) = {<<"a","/","b",".","t","s">>, <<"A","/","b",".","t","s">>}
    /\ Cardinality({h.slug : h \in Headings}) = 1

-----------------------------------------------------------------------------
(* formatOutput on one file whose path and content hold the characters *)
(* xmlEscape replaces: specification and claim                         *)

MaxXmlPieces == 3

\* What the content is put together from: the five characters, the tail of
\* an entity (so that "&" and "amp;" give a content that reads "&amp;"), and
\* a key that is redacted.
XmlPieces == {
    <<"&">>, <<"<">>, <<">">>, <<"\"">>, <<"'">>, <<"a","m","p",";">>,
    <<"s","k","-">> \o Repeat("A", OpenAiKeyMin) }

\* a&b.ts and q"<'>.ts
XmlPaths == {
    <<"a","&","b",".","t","s">>,
    <<"q","\"","<","'",">",".","t","s">> }

XmlInit == AggIdle /\ RedactIdle /\ TreeIdle /\ ScanIdle /\ FormatIdle /\ HogIdle /\ CliIdle

\* The caller makes the one file of the list.
XmlNewFile ==
    /\ fmtPc = "input"
    /\ fmtFiles = <<>>
    /\ \E path \in XmlPaths, n \in 0..MaxXmlPieces :
           \E pieces \in [1..n -> XmlPieces] :
               fmtFiles' = <<FormatFile(path,
                                Variant(FALSE, FALSE, TRUE, Concat(Tuple(pieces))))>>
    /\ UNCHANGED <<cliVars, hogVars, fmtOptions, fmtPc, rendered, aggVars, redactVars, treeVars, scanVars>>

XmlNext ==
    \/ XmlNewFile
    \/ FormatOutput

SpecXml == XmlInit /\ [][XmlNext]_vars

\* The five entities and the characters they stand for.
XmlEntities == <<
    [text |-> <<"&","a","m","p",";">>, char |-> "&"],
    [text |-> <<"&","l","t",";">>, char |-> "<"],
    [text |-> <<"&","g","t",";">>, char |-> ">"],
    [text |-> <<"&","q","u","o","t",";">>, char |-> "\""],
    [text |-> <<"&","a","p","o","s",";">>, char |-> "'"] >>

\* The entities that stand at position i of the text.
EntitiesAt(text, i) ==
    {n \in DOMAIN XmlEntities : StartsWithAt(text, i, XmlEntities[n].text)}

\* Position i of the text lies in an entity that started before it.
InEntity(text, i) ==
    \E j \in 1..(i - 1) : \E n \in EntitiesAt(text, j) : i < j + Len(XmlEntities[n].text)

\* The text with every entity replaced by its character, in one pass from
\* the left.
XmlUnescape(text) ==
    Concat(Tuple([i \in 1..Len(text) |->
        IF InEntity(text, i) THEN <<>>
        ELSE IF EntitiesAt(text, i) # {}
        THEN <<XmlEntities[CHOOSE n \in EntitiesAt(text, i) : TRUE].char>>
        ELSE <<text[i]>>]))

\* The text has none of < > " ' and each of its ampersands starts an entity.
XmlClean(text) ==
    \A i \in 1..Len(text) :
        /\ text[i] \notin {"<", ">", "\"", "'"}
        /\ text[i] = "&" => EntitiesAt(text, i) # {}

\* What the section of a file is to show, before it is escaped.
ExpectedBody(file) ==
    IF Inlineable(file)
    THEN MapGetOr(rendered.redactedByPath, file.path, file.content)
    ELSE ExpectedNote(file)

\* C21: in the xml format the path attribute and the body of every file
\* element have none of the characters < > " ', each ampersand in them
\* starts one of the five entities, and unescaped they are the path and the
\* redacted content (or the note) again.
C21_EscapeRoundTrip ==
    (fmtPc = "done" /\ fmtOptions.format = "xml") =>
        /\ Cardinality(PositionsOf("xmlFile")) = Len(fmtFiles)
        /\ \A f \in FormatInputs :
               \E i \in PositionsOf("xmlFile") : XmlUnescape(rendered.output[i].attrs) = f.path
        /\ \A i \in PositionsOf("xmlFile") :
               /\ XmlClean(rendered.output[i].attrs)
               /\ XmlClean(rendered.output[i].body)
               /\ \E f \in FormatInputs :
                      /\ XmlUnescape(rendered.output[i].attrs) = f.path
                      /\ XmlUnescape(rendered.output[i].body) = ExpectedBody(f)

\* A content that reads "&amp;" followed by "<", which the escaped text
\* shows as "&amp;amp;&lt;".
C21_Witness ==
    /\ fmtPc = "done"
    /\ fmtOptions.format = "xml"
    /\ \E f \in FormatInputs :
           /\ f.content = <<"&","a","m","p",";","<">>
           /\ \E c \in {"\"", "'"} : InSeq(c, f.path)
           /\ \E i \in PositionsOf("xmlFile") :
                  Len(rendered.output[i].body) > Len(f.content) + Len(f.content)

\* A redacted key between two characters that are escaped.
C21_WitnessRedacted ==
    /\ fmtPc = "done"
    /\ fmtOptions.format = "xml"
    /\ \E f \in FormatInputs :
           /\ f.path \in DOMAIN rendered.redactedByPath
           /\ rendered.redactedByPath[f.path] # f.content
           /\ InSeq("&", f.content) /\ InSeq(">", f.content)

-----------------------------------------------------------------------------
(* computeHogsForProject: specification and claims *)

MaxHogFiles == 7

\* Paths of fileTokenStats in the order formatOutput gives them (sorted): six
\* directories of depth 1, one of depth 2, one file in the root.
HogPaths == <<
    <<"a","/","s","/","f">>, <<"b","/","f">>, <<"c","/","f">>, <<"d","/","f">>,
    <<"e","/","f">>, <<"g","/","f">>, <<"r">> >>

HogTokens == {0, 1, 2}

\* --hog-depth: absent, "", " ", "0", "AUTO", "1", "2.5", "0.5", "-1", "x".
HogRaws == {
    NoRaw,
    [has |-> TRUE, text |-> <<>>],
    [has |-> TRUE, text |-> <<" ">>],
    [has |-> TRUE, text |-> <<"-","1">>],
    [has |-> TRUE, text |-> <<"0">>],
    [has |-> TRUE, text |-> <<"A","U","T","O">>],
    [has |-> TRUE, text |-> <<"1">>],
    [has |-> TRUE, text |-> <<"2",".","5">>],
    [has |-> TRUE, text |-> <<"0",".","5">>],
    [has |-> TRUE, text |-> <<"x">>] }

HogInit == AggIdle /\ RedactIdle /\ TreeIdle /\ ScanIdle /\ FormatIdle /\ HogIdle /\ CliIdle

\* formatOutput hands over one stat per file, in path order.
AddHogStat ==
    /\ hogPc = "input"
    /\ Len(hogStats) < MaxHogFiles
    /\ \E i \in DOMAIN HogPaths, t \in HogTokens :
           /\ \A k \in DOMAIN hogStats : IndexIn(HogPaths, hogStats[k].path) < i
           /\ hogStats' = Append(hogStats, [path |-> HogPaths[i], tokens |-> t])
    /\ UNCHANGED <<cliVars, hogRaw, hogPc, hogs, aggVars, redactVars, treeVars, scanVars, formatVars>>

\* computeHogsForProject({fileTokenStats, dirTokenMap, totalTokens, hogDepthRaw})
ComputeHogs ==
    /\ hogPc = "input"
    /\ \E raw \in HogRaws, dirEntries \in {MapEntries(hogStats)} :
           /\ hogRaw' = raw
           /\ hogs' = computeHogsForProject(hogStats, dirEntries,
                          SumTokens(hogStats), raw.has, raw.text)
    /\ hogPc' = "done"
    /\ UNCHANGED <<cliVars, hogStats, aggVars, redactVars, treeVars, scanVars, formatVars>>

HogNext ==
    \/ AddHogStat
    \/ ComputeHogs

SpecHog == HogInit /\ [][HogNext]_vars

\* The directory token map of the stats, and a hog path without its last
\* character.
HogDirMap == aggregateDirectoryTokens(hogStats)
DirKeyOf(entry) == SubSeq(entry.path, 1, Len(entry.path) - 1)

\* The keys a directory report of the given depth may name.
QualifyingDirs(depth) ==
    {k \in DOMAIN HogDirMap :
        k # <<>> /\ HogDirMap[k] > 0 /\ Len(PathSegments(k)) = depth}

Min(a, b) == IF a <= b THEN a ELSE b

\* The entries are the limit best directories of the depth, best first.
IsTopDirs(hogEntries, depth, limit) ==
    /\ Len(hogEntries) = Min(limit, Cardinality(QualifyingDirs(depth)))
    /\ \A i \in DOMAIN hogEntries :
           /\ hogEntries[i].isDir
           /\ hogEntries[i].path # <<>>
           /\ hogEntries[i].path[Len(hogEntries[i].path)] = "/"
           /\ DirKeyOf(hogEntries[i]) \in QualifyingDirs(depth)
           /\ hogEntries[i].tokens = HogDirMap[DirKeyOf(hogEntries[i])]
    /\ \A i, j \in DOMAIN hogEntries :
           i < j => /\ hogEntries[i].tokens >= hogEntries[j].tokens
                    /\ hogEntries[i].path # hogEntries[j].path
    /\ \A k \in QualifyingDirs(depth) :
           (\A i \in DOMAIN hogEntries : DirKeyOf(hogEntries[i]) # k)
               => \A i \in DOMAIN hogEntries : HogDirMap[k] <= hogEntries[i].tokens

\* C11: in dirs mode the report is at most 5 directories of the map, each
\* with exactly hogDepth segments and a positive aggregate, never the root,
\* best first, and no directory left out has more tokens than one reported.
C11_TopDirsAtDepth ==
    (hogPc = "done" /\ hogs.hogMode = "dirs") =>
        /\ Len(hogs.hogEntries) <= 5
        /\ hogs.hasHogDepth => IsTopDirs(hogs.hogEntries, hogs.hogDepth, 5)
        /\ ~hogs.hasHogDepth => hogs.hogEntries = <<>>
        /\ \A i \in DOMAIN hogs.hogEntries :
               /\ DirKeyOf(hogs.hogEntries[i]) # <<>>
               /\ hogs.hogEntries[i].tokens > 0
               /\ Len(PathSegments(DirKeyOf(hogs.hogEntries[i]))) = hogs.hogDepth

C11_Witness ==
    /\ hogPc = "done"
    /\ hogs.hogMode = "dirs"
    /\ hogs.hogDepth = 1
    /\ Cardinality(QualifyingDirs(1)) = 6
    /\ QualifyingDirs(2) # {}
    /\ Len(hogs.hogEntries) = 5
    /\ hogs.hogEntries[1].tokens > hogs.hogEntries[5].tokens

\* The positions of the stats with tokens, and the position of the stat an
\* entry names.
PositiveStats == {j \in DOMAIN hogStats : hogStats[j].tokens > 0}
StatIndex(entry) == CHOOSE j \in DOMAIN hogStats : hogStats[j].path = entry.path

\* The entries are the limit files with the most tokens, best first, files
\* with equal tokens in the order of the stat list.
IsTopFiles(hogEntries, limit) ==
    /\ Len(hogEntries) = Min(limit, Cardinality(PositiveStats))
    /\ \A i \in DOMAIN hogEntries :
           /\ ~hogEntries[i].isDir
           /\ \E j \in PositiveStats :
                  hogStats[j] = [path |-> hogEntries[i].path, tokens |-> hogEntries[i].tokens]
    /\ \A i, j \in DOMAIN hogEntries :
           i < j => \/ hogEntries[i].tokens > hogEntries[j].tokens
                    \/ /\ hogEntries[i].tokens = hogEntries[j].tokens
                       /\ StatIndex(hogEntries[i]) < StatIndex(hogEntries[j])
    /\ \A k \in PositiveStats :
           (\A i \in DOMAIN hogEntries : hogEntries[i].path # hogStats[k].path)
               => \A i \in DOMAIN hogEntries :
                      \/ hogStats[k].tokens < hogEntries[i].tokens
                      \/ /\ hogStats[k].tokens = hogEntries[i].tokens
                         /\ StatIndex(hogEntries[i]) < k

\* C12: in files mode the report is the 5 files with the most tokens (fewer
\* if fewer have any), best first, none without tokens, and files with equal
\* tokens in the order of the path-sorted stat list.
C12_TopFiles ==
    (hogPc = "done" /\ hogs.hogMode = "files") =>
        /\ IsTopFiles(hogs.hogEntries, 5)
        /\ \A i \in DOMAIN hogs.hogEntries : hogs.hogEntries[i].tokens > 0

C12_Witness ==
    /\ hogPc = "done"
    /\ hogs.hogMode = "files"
    /\ Cardinality(PositiveStats) = 6
    /\ \E j \in DOMAIN hogStats : hogStats[j].tokens = 0
    /\ Len(hogs.hogEntries) = 5
    /\ hogs.hogEntries[1].tokens = hogs.hogEntries[2].tokens
    /\ hogs.hogEntries[2].tokens > hogs.hogEntries[3].tokens
    /\ \E k \in PositiveStats :
           hogStats[k].tokens = hogs.hogEntries[5].tokens

\* The depths at which some directory has a positive aggregate.
PositiveDepths == {Len(PathSegments(k)) : k \in {d \in DOMAIN HogDirMap : d # <<>> /\ HogDirMap[d] > 0}}

\* The depth of the auto report: the smallest of them, 1 when there is none.
ExpectedAutoDepth ==
    IF PositiveDepths = {} THEN 1
    ELSE CHOOSE d \in PositiveDepths : \A e \in PositiveDepths : d <= e

FileEntries(hogEntries) == SelectSeq(hogEntries, LAMBDA e : ~e.isDir)
DirEntries(hogEntries) == SelectSeq(hogEntries, LAMBDA e : e.isDir)

C13_WitnessNoDirs ==
    /\ hogPc = "done"
    /\ hogs.hogMode = "auto"
    /\ SumTokens(hogStats) > 0
    /\ PositiveDepths = {}
    /\ hogs.hogDepth = 1

-----------------------------------------------------------------------------
(* main: specification of one run of the command line program *)

\* The files that can be in the root when the program starts.
CliPaths == <<LlmignorePath, <<"a",".","t","s">>, ContextMd, EpistleSecMd, PackageJsonPath>>

\* The .llmignore of the root, when there is one: "!a.ts" and "!package.json".
CliLlmignoreText == <<"!","a",".","t","s">> \o <<"\n">> \o <<"!","p","a","c","k","a","g","e",".","j","s","o","n">>

OutMd == <<"o","u","t",".","m","d">>

CliOptions(format, persona, output, flags, task, exclude) ==
    [format |-> format,
     hasPersona |-> persona # <<>>, persona |-> persona,
     hasOutput |-> output # <<>>, output |-> output,
     copy |-> "copy" \in flags, stdout |-> "stdout" \in flags,
     clean |-> "clean" \in flags, lite |-> "lite" \in flags,
     hasTask |-> task # <<>>, task |-> task,
     exclude |-> exclude, hasHogDepth |-> FALSE, hogDepth |-> <<>>]

\* Command lines, and whether stdout is a terminal: the defaults on a
\* terminal and in a pipe; XML with the alias ARCH; an unsupported format and
\* an unsupported persona, each with --clean and --copy; an output file; a
\* forced stdout; an output file with a persona and --stdout in a pipe; lite
\* mode with a persona. Two of them exclude package.json, one with --lite.
CliInvocations == {
    [opts |-> CliOptions(MarkdownText, <<>>, <<>>, {}, <<>>, <<>>), isTTY |-> TRUE],
    [opts |-> CliOptions(MarkdownText, <<>>, <<>>, {}, <<>>, <<>>), isTTY |-> FALSE],
    [opts |-> CliOptions(<<"X","M","L">>, <<"A","R","C","H">>, <<>>, {"copy"}, <<>>, <<>>), isTTY |-> TRUE],
    [opts |-> CliOptions(<<"y","a","m","l">>, <<>>, OutMd, {"copy", "clean", "stdout"}, <<>>, <<>>),
     isTTY |-> FALSE],
    [opts |-> CliOptions(XmlText, <<"h","a","c","k","e","r">>, <<>>, {"copy", "clean"}, <<>>, <<>>),
     isTTY |-> FALSE],
    [opts |-> CliOptions(MarkdownText, <<>>, OutMd, {"copy", "clean"}, <<"F","i","x">>,
                         <<PackageJsonPath>>), isTTY |-> TRUE],
    [opts |-> CliOptions(XmlText, <<>>, <<>>, {"copy", "stdout"}, <<>>, <<>>),
     isTTY |-> TRUE],
    [opts |-> CliOptions(XmlText, <<"R","e","f","a","c","t","o","r">>, OutMd, {"stdout"}, <<>>, <<>>),
     isTTY |-> FALSE],
    [opts |-> CliOptions(MarkdownText, SecText, <<>>, {"clean", "lite"}, <<>>,
                         << <<"a",".","t","s">>, PackageJsonPath >>), isTTY |-> FALSE] }

CliInit == AggIdle /\ RedactIdle /\ TreeIdle /\ ScanIdle /\ FormatIdle /\ HogIdle /\ CliIdle

AfterWrite == IF cliOpts.copy THEN "copy" ELSE "report"

\* main up to the first await: the options, the two validations, the banner,
\* the output path, the spinner, excludeGlobs.
CliMain ==
    /\ cliPc = "start"
    /\ \E inv \in CliInvocations,
          chosen \in SUBSET {CliPaths[i] : i \in DOMAIN CliPaths} :
           LET run == ResolveRun(inv.opts)
           IN  /\ Cardinality(chosen) <= MaxScanFiles
               /\ cliOpts' = inv.opts
               /\ stdoutIsTTY' = inv.isTTY
               /\ cliDisk' = chosen
               /\ IF ~run.formatValid
                  THEN /\ cliLog' = <<Stderr("Invalid --format value")>>
                       /\ cliExit' = Exited(1)
                       /\ cliPc' = "exited"
                       /\ cliRun' = cliRun
                  ELSE IF ~run.personaValid
                  THEN /\ cliLog' = <<Stderr("Invalid --persona value")>>
                       /\ cliExit' = Exited(1)
                       /\ cliPc' = "exited"
                       /\ cliRun' = cliRun
                  ELSE /\ cliLog' = <<Stderr("banner")>>
                                    \o (IF run.usedAutoOutput
                                        THEN <<Stderr("No output specified. Using default")>>
                                        ELSE <<>>)
                                    \o <<Stderr("Scanning project...")>>
                       /\ cliExit' = Running
                       /\ cliPc' = IF inv.opts.clean THEN "clean" ELSE "scan"
                       /\ cliRun' = run
    /\ UNCHANGED <<cliDoc, hogVars, formatVars, scanVars, aggVars, redactVars, treeVars>>

\* Mutant: every unlink reports success and the files stay where they are.
CliCleanLeavesFiles ==
    /\ cliPc = "clean"
    /\ \E listed \in BOOLEAN :
           LET names == IF listed THEN SelectSeq(CliPaths, LAMBDA q : q \in cliDisk)
                        ELSE <<>>
               toRemove == <<ContextMd>> \o SelectSeq(names, IsEpistleMd)
           IN  /\ cliDisk' = cliDisk
               /\ cliLog' = cliLog
                      \o <<Effect("readdir", RootDir,
                                  IF listed THEN "ok" ELSE "error", <<>>)>>
                      \o Tuple([i \in 1..Len(toRemove) |->
                             Effect("unlink", JoinRoot(toRemove[i]),
                                    IF toRemove[i] \in cliDisk
                                    THEN "ok" ELSE "error", <<>>)])
    /\ cliPc' = "scan"
    /\ UNCHANGED <<cliOpts, stdoutIsTTY, cliRun, cliDoc, cliExit,
                   hogVars, formatVars, scanVars, aggVars, redactVars, treeVars>>

\* if (opts.clean): readdir of the root, then unlink of context.md and of
\* every epistle-*.md it listed; what fails is ignored.
CliClean ==
    /\ cliPc = "clean"
    /\ \E listed \in BOOLEAN :
           LET names == IF listed THEN SelectSeq(CliPaths, LAMBDA q : q \in cliDisk)
                        ELSE <<>>
               toRemove == <<ContextMd>> \o SelectSeq(names, IsEpistleMd)
               present == {toRemove[i] : i \in DOMAIN toRemove} \cap cliDisk
           IN  \E failing \in SUBSET present :
                   /\ cliDisk' = cliDisk \ (present \ failing)
                   /\ cliLog' = cliLog
                          \o <<Effect("readdir", RootDir,
                                      IF listed THEN "ok" ELSE "error", <<>>)>>
                          \o Tuple([i \in 1..Len(toRemove) |->
                                 Effect("unlink", JoinRoot(toRemove[i]),
                                        IF toRemove[i] \in present \ failing
                                        THEN "ok" ELSE "error", <<>>)])
    /\ cliPc' = "scan"
    /\ UNCHANGED <<cliOpts, stdoutIsTTY, cliRun, cliDoc, cliExit,
                   hogVars, formatVars, scanVars, aggVars, redactVars, treeVars>>

\* await scanProject({rootDir, excludeGlobs, ...}): the call, with the
\* entries fast-glob reports in directory order; the root has no .gitignore.
CliScanStart ==
    /\ cliPc = "scan"
    /\ scanPc = "idle"
    /\ scanSetup' = [gitignore |-> NoIgnoreFile,
                     llmignore |-> IF LlmignorePath \in cliDisk
                                   THEN IgnoreFile(CliLlmignoreText) ELSE NoIgnoreFile,
                     excludeGlobs |-> cliRun.excludeGlobs,
                     hasMaxFileSizeBytes |-> FALSE, maxFileSizeBytes |-> 0]
    /\ diskPaths' = cliDisk
    /\ globEntries' = SelectSeq(CliPaths, LAMBDA q : q \in cliDisk /\ ~GlobIgnored(q))
    /\ cursor' = 1
    /\ scanned' = <<>>
    /\ scanPc' = "walking"
    /\ notFiles' = {}
    /\ cliPc' = "scanning"
    /\ cliLog' = Append(cliLog, Effect("scanProject", RootDir, "called", <<>>))
    /\ UNCHANGED <<cliOpts, stdoutIsTTY, cliDisk, cliRun, cliDoc, cliExit, scanResult,
                   hogVars, formatVars, aggVars, redactVars, treeVars>>

\* The promise of scanProject rejects: the catch block.
CliScanRejected ==
    /\ cliPc = "scanning"
    /\ scanPc = "rejected"
    /\ cliLog' = CatchBlock(cliLog).log
    /\ cliExit' = CatchBlock(cliLog).exit
    /\ cliPc' = "exited"
    /\ UNCHANGED <<cliOpts, stdoutIsTTY, cliDisk, cliRun, cliDoc,
                   hogVars, formatVars, scanVars, aggVars, redactVars, treeVars>>

\* The promise resolves: formatOutput(files, options) and the token warning.
CliFormat ==
    /\ cliPc = "scanning"
    /\ scanPc = "returned"
    /\ \E result \in {formatOutput(scanResult, FormatOptionsOf(cliOpts, cliRun))} :
           /\ cliDoc' = [state |-> "ok", output |-> result.output,
                         totalTokens |-> result.totalTokens,
                         fileTokenStats |-> result.fileTokenStats]
           /\ cliLog' = cliLog
                  \o <<Stderr("Formatting output...")>>
                  \o (IF result.totalTokens > TOKEN_BUDGET_WARNING
                      THEN <<Stderr("Warning: Total tokens exceed 50k")>> ELSE <<>>)
    /\ cliPc' = "write"
    /\ UNCHANGED <<cliOpts, stdoutIsTTY, cliDisk, cliRun, cliExit,
                   hogVars, formatVars, scanVars, aggVars, redactVars, treeVars>>

\* The promise resolves and formatOutput throws (the tokenizer cannot be
\* set up, memory runs out): the catch block.
CliFormatThrows ==
    /\ cliPc = "scanning"
    /\ scanPc = "returned"
    /\ cliDoc' = ThrewDocument
    /\ cliLog' = CatchBlock(Append(cliLog, Stderr("Formatting output..."))).log
    /\ cliExit' = CatchBlock(cliLog).exit
    /\ cliPc' = "exited"
    /\ UNCHANGED <<cliOpts, stdoutIsTTY, cliDisk, cliRun,
                   hogVars, formatVars, scanVars, aggVars, redactVars, treeVars>>

\* The document goes to the output file (mkdir, writeFile: either can
\* fail, which leads to the catch block), or to stdout with a newline after
\* it, or nowhere ("Output blocked").
CliWrite ==
    /\ cliPc = "write"
    /\ IF cliRun.hasOutputPath
       THEN \E failure \in {"none", "mkdir", "writeFile"} :
               LET made == Effect("mkdir", RootDir,
                                  IF failure = "mkdir" THEN "error" ELSE "ok", <<>>)
                   wrote == Effect("writeFile", cliRun.outputPath,
                                   IF failure = "writeFile" THEN "error" ELSE "ok",
                                   IF failure = "writeFile" THEN <<>> ELSE cliDoc.output)
               IN  IF failure = "none"
                   THEN /\ cliLog' = cliLog \o <<made, wrote>>
                        /\ cliDisk' = cliDisk \cup {cliRun.outputRel}
                        /\ cliPc' = AfterWrite
                        /\ cliExit' = cliExit
                   ELSE /\ cliLog' = CatchBlock(cliLog \o (IF failure = "mkdir"
                                                          THEN <<made>>
                                                          ELSE <<made, wrote>>)).log
                        /\ cliDisk' = cliDisk
                        /\ cliPc' = "exited"
                        /\ cliExit' = CatchBlock(cliLog).exit
       ELSE /\ cliLog' = Append(cliLog,
                             IF ShouldWriteStdout(cliOpts, cliRun, stdoutIsTTY)
                             THEN Effect("stdout", <<>>, "ok", Append(cliDoc.output, Lit("")))
                             ELSE Stderr("Output blocked to prevent terminal flood."))
            /\ cliDisk' = cliDisk
            /\ cliPc' = AfterWrite
            /\ cliExit' = cliExit
    /\ UNCHANGED <<cliOpts, stdoutIsTTY, cliRun, cliDoc,
                   hogVars, formatVars, scanVars, aggVars, redactVars, treeVars>>

\* if (opts.copy): clipboardy.write(output); a failure is only a warning.
CliCopy ==
    /\ cliPc = "copy"
    /\ \E copied \in BOOLEAN :
           cliLog' = cliLog \o
               (IF copied
                THEN <<Effect("clipboard", <<>>, "ok", cliDoc.output)>>
                ELSE <<Effect("clipboard", <<>>, "error", <<>>),
                       Stderr("Warning: Failed to copy output to clipboard")>>)
    /\ cliPc' = "report"
    /\ UNCHANGED <<cliOpts, stdoutIsTTY, cliDisk, cliRun, cliDoc, cliExit,
                   hogVars, formatVars, scanVars, aggVars, redactVars, treeVars>>

\* spinner.succeed, the hog report, the dashboard (package.json is read for
\* the project name, a failure is ignored), the tip; main returns and the
\* process ends with status 0.
CliReport ==
    /\ cliPc = "report"
    /\ \E dirEntries \in {MapEntries(cliDoc.fileTokenStats)} :
       \E report \in {computeHogsForProject(cliDoc.fileTokenStats, dirEntries,
                           cliDoc.totalTokens, cliOpts.hasHogDepth, cliOpts.hogDepth)} :
           cliLog' = cliLog
               \o <<Stderr("Packed files")>>
               \o (IF report.hogEntries # <<>> THEN <<Stderr("Top Context Hogs")>> ELSE <<>>)
               \o <<Effect("readFile", JoinRoot(PackageJsonPath),
                           IF PackageJsonPath \in cliDisk THEN "ok" ELSE "error", <<>>),
                    Stderr("dashboard"), Stderr("Tip")>>
    /\ cliPc' = "done"
    /\ cliExit' = Exited(0)
    /\ UNCHANGED <<cliOpts, stdoutIsTTY, cliDisk, cliRun, cliDoc,
                   hogVars, formatVars, scanVars, aggVars, redactVars, treeVars>>

CliNext ==
    \/ CliMain
    \/ CliClean
    \/ CliScanStart
    \/ ScanSkipIgnored
    \/ ScanSkipEntry
    \/ ScanPushFile
    \/ ScanReject
    \/ ScanReturn
    \/ CliScanRejected
    \/ CliFormat
    \/ CliFormatThrows
    \/ CliWrite
    \/ CliCopy
    \/ CliReport

SpecCli == CliInit /\ [][CliNext]_vars

\* The entries of the walk that passed the ignore predicate.
PassedEntries ==
    {q \in {globEntries[i] : i \in DOMAIN globEntries} :
        ~Ignores(buildIgnore(scanSetup), q)}

\* The positions of the log where a document went to the output file, to
\* stdout or to the clipboard (or where that was tried).
DocumentWrites ==
    {i \in DOMAIN cliLog : cliLog[i].op \in {"writeFile", "stdout", "clipboard"}}

FailureReported ==
    \E i \in DOMAIN cliLog : cliLog[i] = Stderr("Failed to generate Epistle context.")

\* C15: when lstat, the binary check or the read of an entry that passed the
\* ignore predicate fails, scanProject rejects and gives no list: a list is
\* returned only with every passed entry that is a file in it, and after a
\* rejection main has no list, renders nothing, writes nothing and ends with
\* status 1.
C15_RejectedScanGivesNothing ==
    /\ scanPc = "rejected" =>
           /\ scanResult = <<>>
           /\ cliDoc = NoDocument
           /\ DocumentWrites = {}
           /\ \A i \in DOMAIN cliLog : cliLog[i].op # "mkdir"
           /\ cliPc \in {"scanning", "exited"}
           /\ cliPc = "exited" => cliExit = Exited(1)
    /\ scanPc = "returned" =>
           /\ cursor > Len(globEntries)
           /\ PathsOf(scanResult) = PassedEntries \ notFiles
    /\ cliDoc # NoDocument => scanPc = "returned"

\* The walk failed at its second entry, after the first was pushed.
C15_Witness ==
    /\ scanPc = "rejected"
    /\ cliPc = "exited"
    /\ cursor = 2
    /\ globEntries[1] \in PassedEntries \ notFiles

\* The run was started with a --format value that is neither markdown nor
\* xml in any letter case.
UnsupportedFormat ==
    cliPc # "start" /\ ToLowerCase(cliOpts.format) \notin {MarkdownText, XmlText}

\* C16: an unsupported --format value ends the run with status 1 before any
\* file system call: nothing is deleted, scanned, written or copied; a value
\* that is markdown or xml in another letter case is not refused.
C16_UnsupportedFormatExitsFirst ==
    /\ UnsupportedFormat =>
           /\ cliPc = "exited"
           /\ cliExit = Exited(1)
           /\ cliLog = <<Stderr("Invalid --format value")>>
           /\ scanPc = "idle"
           /\ cliDoc = NoDocument
    /\ (cliPc # "start" /\ ~UnsupportedFormat) =>
           \A i \in DOMAIN cliLog : cliLog[i] # Stderr("Invalid --format value")

C16_Witness ==
    /\ UnsupportedFormat
    /\ cliPc = "exited"
    /\ cliOpts.clean /\ cliOpts.copy /\ cliOpts.hasOutput
    /\ ContextMd \in cliDisk

C16_WitnessUpperCase ==
    /\ cliPc = "done"
    /\ cliOpts.format # ToLowerCase(cliOpts.format)
    /\ cliRun.format = XmlText

\* The scan was rejected, or formatOutput threw.
RunFailed == scanPc = "rejected" \/ cliDoc = ThrewDocument

\* C17: when the scan or the rendering fails, the failure is reported, no
\* document goes to the output file, stdout or the clipboard, and the process
\* ends with a status other than 0; a document goes out only after
\* scanProject has resolved and formatOutput has returned, and it is that
\* document.
C17_NoDocumentOnFailure ==
    /\ RunFailed =>
           /\ DocumentWrites = {}
           /\ cliPc \in {"scanning", "exited"}
           /\ cliPc = "scanning" => (ENABLED CliScanRejected /\ ~ENABLED CliFormat)
           /\ cliPc = "exited" =>
                  /\ cliExit.exited
                  /\ cliExit.code # 0
                  /\ FailureReported
    /\ \A i \in DocumentWrites :
           /\ scanPc = "returned"
           /\ cliDoc.state = "ok"
           /\ \E j \in 1..(i - 1) : cliLog[j] = Stderr("Formatting output...")
           /\ cliLog[i].note = "ok" =>
                  cliLog[i].data = IF cliLog[i].op = "stdout"
                                   THEN Append(cliDoc.output, Lit(""))
                                   ELSE cliDoc.output

\* formatOutput threw in a run that had an output file and --copy.
C17_Witness ==
    /\ cliDoc = ThrewDocument
    /\ cliPc = "exited"
    /\ cliOpts.copy
    /\ cliRun.hasOutputPath
    /\ scanResult # <<>>

C17_WitnessScanFailed ==
    /\ scanPc = "rejected"
    /\ cliPc = "exited"
    /\ cliOpts.copy
    /\ ~cliRun.hasOutputPath /\ ShouldWriteStdout(cliOpts, cliRun, stdoutIsTTY)

C17_WitnessWritten ==
    /\ cliPc = "done"
    /\ \E i, j \in DocumentWrites :
           /\ cliLog[i].op = "writeFile" /\ cliLog[i].note = "ok"
           /\ cliLog[j].op = "clipboard" /\ cliLog[j].note = "ok"
           /\ cliLog[i].data # <<>>

\* The positions of the log where the output file and stdout were written.
FileWrites == {i \in DOMAIN cliLog : cliLog[i].op = "writeFile"}
StdoutWrites == {i \in DOMAIN cliLog : cliLog[i].op = "stdout"}

\* The name of the output file the command line asks for, <<>> when it asks
\* for none: the --output value, or epistle-<alias>.md of the persona.
ExpectedOutputName ==
    LET persona == ToLowerCase(cliOpts.persona)
    IN  IF cliOpts.hasOutput /\ cliOpts.output # <<>> THEN cliOpts.output
        ELSE IF ~cliOpts.hasPersona THEN <<>>
        ELSE IF persona \in {<<"a","r","c","h">>, <<"a","r","c","h","i","t","e","c","t">>} THEN <<"e","p","i","s","t","l","e","-","a","r","c","h",".","m","d">>
        ELSE IF persona \in {<<"s","e","c">>, <<"s","e","c","u","r","i","t","y">>} THEN <<"e","p","i","s","t","l","e","-","s","e","c",".","m","d">>
        ELSE IF persona \in {<<"r","e","f">>, <<"r","e","f","a","c","t","o","r">>} THEN <<"e","p","i","s","t","l","e","-","r","e","f",".","m","d">>
        ELSE <<>>

\* C23: a run that succeeds writes the document to the output file and not
\* to stdout when there is an output path (--output, or the default of the
\* persona); else to stdout, once and with a newline after it, when stdout is
\* no terminal or --stdout is given; else to neither. No run writes to both,
\* and stdout never gets anything but the document and that newline.
C23_OneDestination ==
    /\ ~(FileWrites # {} /\ StdoutWrites # {})
    /\ \A i \in StdoutWrites : cliLog[i].data = Append(cliDoc.output, Lit(""))
    /\ cliPc = "done" =>
           IF ExpectedOutputName # <<>>
           THEN /\ StdoutWrites = {}
                /\ Cardinality(FileWrites) = 1
                /\ \A i \in FileWrites :
                       /\ cliLog[i].path = RootDir \o <<"/">> \o ExpectedOutputName
                       /\ cliLog[i].note = "ok"
                       /\ cliLog[i].data = cliDoc.output
           ELSE IF ~stdoutIsTTY \/ cliOpts.stdout
           THEN /\ FileWrites = {}
                /\ Cardinality(StdoutWrites) = 1
           ELSE FileWrites = {} /\ StdoutWrites = {}

\* An output file, a persona, --stdout and a pipe: the file only.
C23_Witness ==
    /\ cliPc = "done"
    /\ cliOpts.hasOutput /\ cliOpts.hasPersona /\ cliOpts.stdout /\ ~stdoutIsTTY
    /\ FileWrites # {}
    /\ cliDoc.output # <<>>

C23_WitnessDefaultName ==
    /\ cliPc = "done"
    /\ ~cliOpts.hasOutput
    /\ \E i \in FileWrites : cliLog[i].path = JoinRoot(<<"e","p","i","s","t","l","e","-","a","r","c","h",".","m","d">>)

C23_WitnessStdout ==
    /\ cliPc = "done"
    /\ stdoutIsTTY
    /\ StdoutWrites # {}

C23_WitnessBlocked ==
    /\ cliPc = "done"
    /\ FileWrites = {} /\ StdoutWrites = {}
    /\ \E i \in DOMAIN cliLog :
           cliLog[i] = Stderr("Output blocked to prevent terminal flood.")

\* The positions of the log with the steps of --clean, and with the call
\* of scanProject.
CleanSteps == {i \in DOMAIN cliLog : cliLog[i].op \in {"readdir", "unlink"}}
ScanCalls == {i \in DOMAIN cliLog : cliLog[i].op = "scanProject"}

\* The files of the root --clean is about that the run deleted, and those
\* that are still there when scanProject is called.
DeletedArtifacts ==
    {q \in PriorArtifacts :
        \E i \in CleanSteps : cliLog[i] = Effect("unlink", JoinRoot(q), "ok", <<>>)}
LeftArtifacts == PriorArtifacts \cap diskPaths

\* The paths the document has a section or a token count for.
DocumentPaths ==
    IF cliDoc.state # "ok" THEN {}
    ELSE {cliDoc.fileTokenStats[i].path : i \in DOMAIN cliDoc.fileTokenStats}

C25_WitnessNotListed ==
    /\ cliPc = "done"
    /\ cliOpts.clean
    /\ Effect("readdir", RootDir, "error", <<>>) \in {cliLog[i] : i \in CleanSteps}
    /\ EpistleSecMd \in DocumentPaths

\* What the caller's --exclude patterns match, taken by themselves.
CallerExcludes(relative) ==
    Ignores(Tuple([i \in 1..Len(cliOpts.exclude) |-> IgnoreRule(cliOpts.exclude[i])]),
            relative)

NoCallerNegation ==
    \A i \in DOMAIN cliOpts.exclude : Head(cliOpts.exclude[i]) # "!"

HasPackageJsonSegment(relative) ==
    \E k \in DOMAIN PathSegments(relative) : PathSegments(relative)[k] = PackageJsonPath

C26_WitnessNotLite ==
    /\ scanPc = "returned"
    /\ ~cliOpts.lite
    /\ scanSetup.llmignore.readable
    /\ PackageJsonPath \in diskPaths
    /\ CallerExcludes(PackageJsonPath)
    /\ PackageJsonPath \notin PathsOf(scanResult)

\* With --lite the excluded package.json is scanned.
C26_WitnessLitePackageJson ==
    /\ scanPc = "returned"
    /\ cliOpts.lite
    /\ CallerExcludes(PackageJsonPath)
    /\ PackageJsonPath \in PathsOf(scanResult)

\* The text is a decimal numeral greater than 0: digits with at most one
\* ".", one of the digits not "0".
IsPositiveNumeral(text) ==
    /\ text # <<>>
    /\ \A i \in DOMAIN text : text[i] \in Digit \cup {"."}
    /\ Cardinality({i \in DOMAIN text : text[i] = "."}) <= 1
    /\ \E i \in DOMAIN text : text[i] \in Digit \ {"0"}

\* The mode the --hog-depth value stands for.
ExpectedHogMode ==
    IF ~hogRaw.has \/ Trim(hogRaw.text) = <<>> \/ hogRaw.text = <<"0">> THEN "files"
    ELSE IF ToLowerCase(hogRaw.text) = <<"a","u","t","o">> THEN "auto"
    ELSE IF IsPositiveNumeral(hogRaw.text) THEN "dirs"
    ELSE "files"

\* C28, the modes: no value, an empty or blank one and "0" give the mode
\* files, "auto" in any letter case gives auto, a numeral greater than 0 gives
\* dirs, anything else gives files.
C28_ModesSelected ==
    hogPc = "done" => hogs.hogMode = ExpectedHogMode

\* C28: the modes are selected as above, and in the mode dirs the depth the
\* directories are ranked at is an integer of at least 1.
C28_DirsDepthAtLeastOne ==
    hogPc = "done" =>
        /\ hogs.hogMode = ExpectedHogMode
        /\ hogs.hogMode = "dirs" => (hogs.hasHogDepth /\ hogs.hogDepth >= 1)

\* --hog-depth 2.5 on files with tokens: directories of depth 2.
C28_Witness ==
    /\ hogPc = "done"
    /\ hogRaw.text = <<"2",".","5">>
    /\ hogs.hogMode = "dirs"
    /\ hogs.hogDepth = 2
    /\ SumTokens(hogStats) > 0

\* --hog-depth 0.5 on files with tokens in directories: the mode is dirs, the
\* depth 0, the report empty.
C28_WitnessDepthZero ==
    /\ hogPc = "done"
    /\ hogRaw.text = <<"0",".","5">>
    /\ hogs.hogMode = "dirs"
    /\ hogs.hogDepth = 0
    /\ hogs.hogEntries = <<>>
    /\ \E k \in DOMAIN hogStats :
           hogStats[k].tokens > 0 /\ getDirDepth(hogStats[k].path) > 1

====
